---------------------------- MODULE Spec2Model ----------------------------
(***************************************************************************)
(* A model of the gateway crate (src/rust/crates/gateway/src/lib.rs): the  *)
(* backend Catalog and its loader, the per-backend qBittorrent session     *)
(* cells, the proxy handler with its single re-login retry and the headers *)
(* and target URL of its upstream requests, the status, select and         *)
(* config-get handlers, the locks of the Catalog and of the session map,   *)
(* and the configuration update handler that persists a new configuration  *)
(* file and swaps the live Catalog.                                         *)
(*                                                                         *)
(* Strings are sequences of tokens; the token SP is one whitespace         *)
(* character, so that trim() is a computation.  Option<T> is a sequence of *)
(* length 0 (None) or 1 (Some).                                            *)
(***************************************************************************)
EXTENDS Integers, Sequences, FiniteSets, TLC

VARIABLES
  catalog,    \* AppState.catalog: the live Catalog behind the RwLock
  file,       \* the durable configuration file at config_path (Option of a JSON document)
  tmp,        \* the temporary file config_path.with_extension("tmp") (Option)
  sessions,   \* QbitSessions.sessions: backend id -> cell
  cells,      \* the QbitSession cells: cell -> [cookie, locked]
  proxy,      \* one record per handle_proxy task: its locals and position
  upd,        \* one record per handle_config_update task: its locals and position
  freshDue,   \* history: a config update has completed and no qbit request began since
  probe,      \* the argument and result of the last pure-function evaluation
  status_task, \* the record of a handle_status task
  select_task, \* the record of a handle_select task
  get_task,   \* the record of a handle_config_get task
  versions    \* history: the Catalog values that have been live

\* The tasks of the handlers that only read the Catalog.
readers == <<status_task, select_task, get_task>>

vars == <<catalog, file, tmp, sessions, cells, proxy, upd, freshDue, probe,
          status_task, select_task, get_task, versions>>

-----------------------------------------------------------------------------
(* Strings and Option *)

SP == " "

None == <<>>

Some(v) == <<v>>

IsSome(o) == Len(o) = 1

Unwrap(o) == o[1]

EmptyStr == <<>>

RECURSIVE trim_start(_)
trim_start(s) ==
  IF s # <<>> /\ Head(s) = SP THEN trim_start(Tail(s)) ELSE s

RECURSIVE trim_end(_)
trim_end(s) ==
  IF s # <<>> /\ s[Len(s)] = SP THEN trim_end(SubSeq(s, 1, Len(s) - 1)) ELSE s

trim(s) == trim_end(trim_start(s))

EmptyMap == [k \in {} |-> None]

MapInsert(m, k, v) == [x \in (DOMAIN m) \cup {k} |-> IF x = k THEN v ELSE m[x]]

-----------------------------------------------------------------------------
(* BackendType and URLs *)

Qbit == "qbit"

Trans == "trans"

\* Scheme tokens: "http:" is a special scheme of the url crate (it needs a
\* host), "unix:" is not (it parses without one).
SpecialSchemes == {"http:"}

OtherSchemes == {"unix:"}

HostTokens == {"//h1", "//h2", "//[::1]"}

\* Url::host_str() of a host token: the text after "//"; an IPv6 literal
\* keeps its brackets.
host_str(tok) ==
  CASE tok = "//h1" -> "h1"
    [] tok = "//h2" -> "h2"
    [] tok = "//[::1]" -> "[::1]"

host_contains_colon(h) == h \in {"::1", "[::1]"}

host_starts_with_bracket(h) == h \in {"[::1]"}

PortTokens == {":8080", ":9091"}

\* Url::parse: surrounding whitespace is ignored; a string that does not
\* start with a scheme is a relative URL and fails; a special scheme with no
\* host fails; any other scheme parses with host_str() = None.
url_has_host(t) == Len(t) >= 2 /\ t[2] \in HostTokens

url_has_port(t) == Len(t) >= 3 /\ t[2] \in HostTokens /\ t[3] \in PortTokens

url_parts(t) ==
  [scheme |-> Head(t),
   host |-> IF url_has_host(t) THEN Some(host_str(t[2])) ELSE None,
   port |-> IF url_has_port(t) THEN Some(t[3]) ELSE None,
   path |-> IF url_has_port(t) THEN SubSeq(t, 4, Len(t))
            ELSE IF url_has_host(t) THEN SubSeq(t, 3, Len(t))
            ELSE SubSeq(t, 2, Len(t))]

url_parse_trimmed(t) ==
  IF t = <<>> THEN None
  ELSE IF Head(t) \notin SpecialSchemes \cup OtherSchemes THEN None
  ELSE IF Head(t) \in SpecialSchemes /\ ~url_has_host(t) THEN None
  ELSE Some(url_parts(t))

url_parse(s) == url_parse_trimmed(trim(s))

\* format_host_only: a host with a colon and no leading bracket is bracketed.
format_host_only(host) ==
  IF host_contains_colon(host) /\ ~host_starts_with_bracket(host)
    THEN "[" \o host \o "]"
    ELSE host

\* The origin computed by Catalog::load: scheme://host[:port].
origin_of(base) ==
  IF IsSome(base.port)
    THEN <<base.scheme, "//", format_host_only(Unwrap(base.host)), Unwrap(base.port)>>
    ELSE <<base.scheme, "//", format_host_only(Unwrap(base.host))>>

-----------------------------------------------------------------------------
(* ServerConfig, ConfigFile and the JSON document of the configuration file *)

ServerConfig(id, name, kind, base_url, username, password) ==
  [id |-> id, name |-> name, kind |-> kind, base_url |-> base_url,
   username |-> username, password |-> password]

\* serde_json::to_vec_pretty(&ConfigFile): camelCase keys, "type" for kind.
serialize_server(s) ==
  [id |-> s.id, name |-> s.name, type |-> s.kind, baseUrl |-> s.base_url,
   username |-> s.username, password |-> s.password]

serialize_config(cfg) ==
  [defaultServerId |-> cfg.default_server_id,
   servers |-> [i \in 1..Len(cfg.servers) |-> serialize_server(cfg.servers[i])]]

\* serde_json::from_slice::<ConfigFile>: the inverse renaming.
deserialize_server(j) ==
  ServerConfig(j.id, j.name, j.type, j.baseUrl, j.username, j.password)

deserialize_config(doc) ==
  [default_server_id |-> doc.defaultServerId,
   servers |-> [i \in 1..Len(doc.servers) |-> deserialize_server(doc.servers[i])]]

-----------------------------------------------------------------------------
(* Catalog::load *)

Ok(v) == [ok |-> TRUE, err |-> "", val |-> Some(v)]

Err(e) == [ok |-> FALSE, err |-> e, val |-> None]

\* The body of the for loop of Catalog::load for one server: the fields are
\* trimmed, the name defaults to the id, the checks run in the order of the
\* code; the entry, or the error the loop returns with.
trim_server_keep_id(s) ==
  [s EXCEPT !.name = trim(s.name),
            !.base_url = trim(s.base_url), !.username = trim(s.username),
            !.password = trim(s.password)]

trim_server(s) ==
  [s EXCEPT !.id = trim(s.id), !.name = trim(s.name),
            !.base_url = trim(s.base_url), !.username = trim(s.username),
            !.password = trim(s.password)]

name_server(s) == IF s.name = EmptyStr THEN [s EXCEPT !.name = s.id] ELSE s

ServerEntry(cfg, base) == [cfg |-> cfg, base |-> base, origin |-> origin_of(base)]

\* A loop body without the duplicate check.
check_entry_no_duplicate(s, base, servers) ==
  IF s.id = EmptyStr THEN Err("server.id is required")
  ELSE IF s.base_url = EmptyStr THEN Err("baseUrl is required")
  ELSE IF ~IsSome(base) THEN Err("invalid baseUrl")
  ELSE IF ~IsSome(Unwrap(base).host) THEN Err("invalid baseUrl")
  ELSE Ok(ServerEntry(name_server(s), Unwrap(base)))

check_entry(s, base, servers) ==
  IF s.id = EmptyStr THEN Err("server.id is required")
  ELSE IF s.base_url = EmptyStr THEN Err("baseUrl is required")
  ELSE IF s.id \in DOMAIN servers THEN Err("duplicate server id")
  ELSE IF ~IsSome(base) THEN Err("invalid baseUrl")
  ELSE IF ~IsSome(Unwrap(base).host) THEN Err("invalid baseUrl")
  ELSE Ok(ServerEntry(name_server(s), Unwrap(base)))

parse_entry(s, servers) == check_entry(s, url_parse(s.base_url), servers)

load_entry(s0, servers) == parse_entry(trim_server(s0), servers)

RECURSIVE load_loop(_, _, _, _)
RECURSIVE load_push(_, _, _, _, _)
load_push(list, i, servers, order, e) ==
  IF ~e.ok THEN e
  ELSE load_loop(list, i + 1,
                 MapInsert(servers, Unwrap(e.val).cfg.id, Unwrap(e.val)),
                 Append(order, Unwrap(e.val).cfg.id))

load_loop(list, i, servers, order) ==
  IF i > Len(list) THEN Ok([servers |-> servers, order |-> order])
  ELSE load_push(list, i, servers, order, load_entry(list[i], servers))

Catalog(default_id, servers, order) ==
  [default_id |-> default_id, servers |-> servers, order |-> order]

\* A choice of default_id that takes the configured id as it is.
load_default_unchecked(default_server_id, looped) ==
  IF ~looped.ok THEN looped
  ELSE IF default_server_id = EmptyStr
    THEN Ok(Catalog(Unwrap(looped.val).order[1], Unwrap(looped.val).servers,
                    Unwrap(looped.val).order))
  ELSE Ok(Catalog(default_server_id, Unwrap(looped.val).servers,
                  Unwrap(looped.val).order))

\* The choice of default_id once the loop has ended with looped.
load_default(default_server_id, looped) ==
  IF ~looped.ok THEN looped
  ELSE IF default_server_id = EmptyStr
    THEN Ok(Catalog(Unwrap(looped.val).order[1], Unwrap(looped.val).servers,
                    Unwrap(looped.val).order))
  ELSE IF default_server_id \in DOMAIN Unwrap(looped.val).servers
    THEN Ok(Catalog(default_server_id, Unwrap(looped.val).servers,
                    Unwrap(looped.val).order))
  ELSE Err("defaultServerId not found in servers")

\* Catalog::load after the file has been read and parsed into cfg.
load_config(cfg) ==
  IF cfg.servers = <<>> THEN Err("config.servers is empty")
  ELSE load_default(trim(cfg.default_server_id),
                    load_loop(cfg.servers, 1, EmptyMap, <<>>))

\* What std::fs::write leaves in a file: the whole document, or a part of it
\* when the write failed midway.
Written(doc) == [complete |-> TRUE, json |-> doc]

Partial(doc) == [complete |-> FALSE, json |-> doc]

\* Catalog::load(path): reading fails when the file is missing, parsing fails
\* on a document that was not written whole.
load(f) ==
  IF ~IsSome(f) THEN Err("read config")
  ELSE IF ~Unwrap(f).complete THEN Err("parse config")
  ELSE load_config(deserialize_config(Unwrap(f).json))

\* A selected_id that trusts the cookie without looking the id up.
selected_from_cookie(cat, id) ==
  IF id # EmptyStr THEN id ELSE cat.default_id

\* Catalog::selected_id: jar is the Option of the tm_server_id cookie's value.
selected_from(cat, id) ==
  IF id # EmptyStr /\ id \in DOMAIN cat.servers THEN id ELSE cat.default_id

selected_id(cat, jar) ==
  IF IsSome(jar) THEN selected_from(cat, trim(Unwrap(jar))) ELSE cat.default_id

\* Catalog::pick: self.servers.get(id).expect("catalog validated"); None
\* stands for the panic of expect.
get_server(cat, id) ==
  IF id \in DOMAIN cat.servers THEN Some(cat.servers[id]) ELSE None

pick(cat, jar) == get_server(cat, selected_id(cat, jar))

-----------------------------------------------------------------------------
(* read_body_bytes *)

MAX_BODY_BYTES == 67108864

Chunk(n) == [ok |-> TRUE, len |-> n]

ChunkErr == [ok |-> FALSE, len |-> 0]

\* A loop that refuses a body as soon as it reaches the limit.
RECURSIVE read_body_loop_at_limit(_, _, _, _)
read_body_loop_at_limit(stream, i, out, limit) ==
  IF i > Len(stream) THEN [tag |-> "Ok", len |-> out]
  ELSE IF ~stream[i].ok THEN [tag |-> "Other", len |-> 0]
  ELSE IF out + stream[i].len >= limit THEN [tag |-> "TooLarge", len |-> 0]
  ELSE read_body_loop_at_limit(stream, i + 1, out + stream[i].len, limit)

\* The while loop of read_body_bytes over the chunks the stream yields; out
\* is out.len().  The saturating add cannot saturate: out <= limit and a
\* chunk is an allocation, so the sum stays below usize::MAX.
RECURSIVE read_body_loop(_, _, _, _)
read_body_loop(stream, i, out, limit) ==
  IF i > Len(stream) THEN [tag |-> "Ok", len |-> out]
  ELSE IF ~stream[i].ok THEN [tag |-> "Other", len |-> 0]
  ELSE IF out + stream[i].len > limit THEN [tag |-> "TooLarge", len |-> 0]
  ELSE read_body_loop(stream, i + 1, out + stream[i].len, limit)

read_body_bytes(stream, limit) == read_body_loop(stream, 1, 0, limit)

-----------------------------------------------------------------------------
(* Bounds and the tasks *)

NumProxies == 2

NumUpdates == 2

MaxCells == 3

MaxServers == 2

MaxChunks == 2

Proxies == 1..NumProxies

Updates == 1..NumUpdates

Cells == 1..MaxCells

\* QbitSession { cookie: None } behind its Mutex.
FreshCell == [cookie |-> None, locked |-> FALSE]

\* lock is what the task holds: "read" or "write" for a guard of the Catalog
\* RwLock, "map" for the guard of the Mutex of the session map, or "none".
\* The locals of a handle_proxy task.  sent and statuses list, per
\* forward_once call, the session cookie it was given and the upstream status
\* it got (0: the send failed); forced and logins count the calls of
\* ensure_cookie(force = true) and the login requests sent; auth1 is how the
\* first ensure_cookie ended.  uri and headers are the caller's; upstream
\* lists the requests forward_once sent, reply is the header map of the last
\* upstream response and out_headers that of the response to the caller.
IdleProxy ==
  [pc |-> "idle", jar |-> None, stream |-> <<>>, entry |-> None,
   cookie |-> None, cell |-> 0, force |-> FALSE, attempt |-> 0, auth1 |-> "",
   sent |-> <<>>, statuses |-> <<>>, forced |-> 0, logins |-> 0, out |-> 0,
   must |-> FALSE, lock |-> "none",
   uri |-> [path |-> <<>>, query |-> None], headers |-> <<>>,
   upstream |-> <<>>, reply |-> <<>>, out_headers |-> <<>>]

\* The locals of a handle_config_update task; file_before is history: the
\* configuration file as it was when the request arrived.
IdleUpdate ==
  [pc |-> "idle", req |-> None, existing |-> EmptyMap, config |-> None,
   new_catalog |-> None, out |-> 0, msg |-> "", lock |-> "none",
   file_before |-> None]

IdleProbe == [op |-> "idle", arg |-> None, res |-> None]

\* The locals of a handle_status task: the selected id and the items cloned
\* under the read lock, one dial per item, whether the deadline has passed,
\* and the servers of the response.
IdleStatus ==
  [pc |-> "idle", lock |-> "none", jar |-> None, selected |-> None,
   items |-> <<>>, dials |-> <<>>, expired |-> FALSE, servers |-> <<>>]

\* The locals of a handle_select task: the trimmed id, the status of the
\* response and its Set-Cookie header.
IdleSelect ==
  [pc |-> "idle", lock |-> "none", raw |-> None, id |-> EmptyStr,
   out |-> 0, msg |-> "", set_cookie |-> None]

\* The locals of a handle_config_get task and the body of its response.
IdleConfigGet ==
  [pc |-> "idle", lock |-> "none", default_server_id |-> None,
   servers |-> <<>>, out |-> None]

\* tokio::sync::RwLock<Catalog>: read() waits while a writer holds the lock,
\* write() waits while anyone holds it.
WriteHeld == \E u \in 1..NumUpdates : upd[u].lock = "write"

ReadHeld ==
  \/ \E p \in 1..NumProxies : proxy[p].lock = "read"
  \/ \E u \in 1..NumUpdates : upd[u].lock = "read"
  \/ status_task.lock = "read"
  \/ select_task.lock = "read"
  \/ get_task.lock = "read"

\* tokio::sync::Mutex<HashMap<..>> of QbitSessions: lock() waits while held.
MapHeld ==
  \/ \E p \in 1..NumProxies : proxy[p].lock = "map"
  \/ \E u \in 1..NumUpdates : upd[u].lock = "map"

Range(f) == {f[x] : x \in DOMAIN f}

\* The cells some Arc still points to: those of the map and those a task holds.
Referenced(sess, prox) == Range(sess) \cup {prox[p].cell : p \in Proxies}

\* Dropping the last Arc of a cell frees it.
DropUnreferenced(cs, sess, prox) ==
  [c \in Cells |-> IF c \in Referenced(sess, prox) THEN cs[c] ELSE FreshCell]

FreeCells == Cells \ Referenced(sessions, proxy)

NewCell == CHOOSE c \in FreeCells : \A d \in FreeCells : c <= d

-----------------------------------------------------------------------------
(* QbitSessions::ensure_cookie *)

\* extract_set_cookie_pairs for one Set-Cookie header value: the text before
\* the first ';', trimmed, split at the first '='; None when it is skipped.
RECURSIVE index_of(_, _, _)
index_of(s, tok, i) ==
  IF i > Len(s) THEN 0 ELSE IF s[i] = tok THEN i ELSE index_of(s, tok, i + 1)

before(s, tok) ==
  IF index_of(s, tok, 1) = 0 THEN s ELSE SubSeq(s, 1, index_of(s, tok, 1) - 1)

after(s, tok) ==
  IF index_of(s, tok, 1) = 0 THEN <<>> ELSE SubSeq(s, index_of(s, tok, 1) + 1, Len(s))

name_value(name, value) ==
  IF name = <<>> THEN None ELSE Some(name \o <<"=">> \o value)

split_pair(pair) ==
  IF pair = <<>> THEN None
  ELSE name_value(trim(before(pair, "=")), trim(after(pair, "=")))

\* A byte outside visible ASCII, and a control character.
OPAQUE == "<0xff>"

CTL == "<0x01>"

\* HeaderValue::to_str: Err when the value holds a byte outside visible ASCII.
to_str(value) ==
  IF \E i \in 1..Len(value) : value[i] = OPAQUE THEN None ELSE Some(value)

\* The body of the for loop: a value that is not text is skipped.
cookie_pair(value) ==
  IF ~IsSome(to_str(value)) THEN None
  ELSE split_pair(trim(before(Unwrap(to_str(value)), ";")))

push_pair(p, rest) == IF IsSome(p) THEN <<Unwrap(p)>> \o rest ELSE rest

RECURSIVE extract_set_cookie_pairs(_)
extract_set_cookie_pairs(headers) ==
  IF headers = <<>> THEN <<>>
  ELSE push_pair(cookie_pair(Head(headers)), extract_set_cookie_pairs(Tail(headers)))

\* cookies.join("; ")
RECURSIVE join_cookies(_)
join_cookies(cookies) ==
  IF Len(cookies) = 1 THEN cookies[1]
  ELSE cookies[1] \o <<";", SP>> \o join_cookies(Tail(cookies))

\* A login response: whether the request was answered at all, the status,
\* whether the body contains "Ok", and the Set-Cookie header values.
LoginResponse(sent_ok, status, body_ok, set_cookie) ==
  [sent_ok |-> sent_ok, status |-> status, body_ok |-> body_ok,
   set_cookie |-> set_cookie]

\* ensure_cookie from the response on: the error it returns, or the cookie.
cookies_result(cookies) ==
  IF cookies = <<>> THEN Err("qB login did not set cookies")
  ELSE Ok(join_cookies(cookies))

\* A check of the response that does not look for "Ok" in the body.
login_result_without_marker(r) ==
  IF ~r.sent_ok THEN Err("qB login request failed")
  ELSE IF r.status # 200 THEN Err("qB login failed: status")
  ELSE cookies_result(extract_set_cookie_pairs(r.set_cookie))

login_result(r) ==
  IF ~r.sent_ok THEN Err("qB login request failed")
  ELSE IF r.status # 200 THEN Err("qB login failed: status")
  ELSE IF ~r.body_ok THEN Err("qB login failed: body")
  ELSE cookies_result(extract_set_cookie_pairs(r.set_cookie))

\* The session cookie a backend issues names the account that logged in.
SidHeader(entry) ==
  <<"SID", "=">> \o entry.cfg.username \o <<":">> \o entry.cfg.password
    \o <<";", SP, "HttpOnly">>

\* What the backend may answer to the login request for entry.
LoginAnswer(a, entry) ==
  CASE a = "unsent" -> LoginResponse(FALSE, 0, FALSE, <<>>)
    [] a = "forbidden" -> LoginResponse(TRUE, 403, FALSE, <<>>)
    [] a = "fails" -> LoginResponse(TRUE, 200, FALSE, <<>>)
    [] a = "nocookie" -> LoginResponse(TRUE, 200, TRUE, <<>>)
    [] a = "badcookie" ->
         LoginResponse(TRUE, 200, TRUE, << <<SP, "=", "x", ";", "Path=/">> >>)
    [] a = "ok" -> LoginResponse(TRUE, 200, TRUE, <<SidHeader(entry)>>)
    [] a = "ok2" ->
         LoginResponse(TRUE, 200, TRUE,
                       <<SidHeader(entry), <<SP, "lang", SP, "=", SP, "en">> >>)

\* A handle_proxy that answers 502 when the first ensure_cookie returns Err.
after_ensure_or_502(rec, res) ==
  IF ~res.ok /\ ~rec.force
    THEN [rec EXCEPT !.pc = "done", !.cell = 0, !.auth1 = res.err, !.out = 502]
    ELSE [rec EXCEPT !.pc = "forward",
                     !.cell = 0,
                     !.cookie = IF res.ok THEN res.val ELSE rec.cookie,
                     !.auth1 = IF rec.force THEN rec.auth1
                               ELSE IF res.ok /\ res.err = "" THEN "ok" ELSE res.err]

\* `if let Ok(v) = ensure_cookie(..) { cookie = Some(v) }` of handle_proxy:
\* the task's record once ensure_cookie has returned res.
after_ensure(rec, res) ==
  [rec EXCEPT !.pc = "forward",
              !.cell = 0,
              !.cookie = IF res.ok THEN res.val ELSE rec.cookie,
              !.auth1 = IF rec.force THEN rec.auth1
                        ELSE IF res.ok /\ res.err = "" THEN "ok" ELSE res.err]

\* ensure_cookie up to self.sessions.lock().await in session(id): the
\* credential check, then the guard of the map is taken.
EnsureStart(p) ==
  /\ proxy[p].pc = "ensure"
  /\ IF /\ Unwrap(proxy[p].entry).cfg.username = EmptyStr
        /\ Unwrap(proxy[p].entry).cfg.password = EmptyStr
       THEN proxy' = [proxy EXCEPT ![p] =
              after_ensure(proxy[p], Err("requires username/password"))]
       ELSE /\ ~MapHeld
            /\ proxy' = [proxy EXCEPT ![p].pc = "session", ![p].lock = "map"]
  /\ UNCHANGED <<catalog, file, tmp, sessions, cells, upd, freshDue, probe,
                 readers, versions>>

\* A session(id) whose caller keeps the guard of the map.
EnsureSessionHolding(p) ==
  LET id == Unwrap(proxy[p].entry).cfg.id
  IN /\ proxy[p].pc = "session"
     /\ IF id \in DOMAIN sessions
          THEN /\ proxy' = [proxy EXCEPT ![p].pc = "lock", ![p].cell = sessions[id]]
               /\ UNCHANGED sessions
          ELSE /\ FreeCells # {}
               /\ sessions' = MapInsert(sessions, id, NewCell)
               /\ proxy' = [proxy EXCEPT ![p].pc = "lock", ![p].cell = NewCell]
     /\ UNCHANGED <<catalog, file, tmp, cells, upd, freshDue, probe,
                    readers, versions>>

\* session(id) with the guard of the map: the cell of the id, created when
\* the map has none; the guard is dropped on return.
EnsureSession(p) ==
  LET id == Unwrap(proxy[p].entry).cfg.id
  IN /\ proxy[p].pc = "session"
     /\ IF id \in DOMAIN sessions
          THEN /\ proxy' = [proxy EXCEPT ![p].pc = "lock", ![p].lock = "none",
                                         ![p].cell = sessions[id]]
               /\ UNCHANGED sessions
          ELSE /\ FreeCells # {}
               /\ sessions' = MapInsert(sessions, id, NewCell)
               /\ proxy' = [proxy EXCEPT ![p].pc = "lock", ![p].lock = "none",
                                         ![p].cell = NewCell]
     /\ UNCHANGED <<catalog, file, tmp, cells, upd, freshDue, probe,
                    readers, versions>>

\* The cell once ensure_cookie has ended with res: the cookie is stored on
\* success, the guard is dropped either way.
stored_cell(cell, res) ==
  [cookie |-> IF res.ok THEN res.val ELSE cell.cookie, locked |-> FALSE]

LoginReturns(p, res) ==
  /\ proxy' = [proxy EXCEPT ![p] = after_ensure(proxy[p], res)]
  /\ cells' = DropUnreferenced(
       [cells EXCEPT ![proxy[p].cell] = stored_cell(cells[proxy[p].cell], res)],
       sessions, proxy')

\* A look at the cached cookie that returns it also when force is set.
EnsureLockIgnoringForce(p) ==
  LET rec == proxy[p]
      c == rec.cell
  IN /\ rec.pc = "lock"
     /\ ~cells[c].locked
     /\ IF IsSome(cells[c].cookie)
          THEN /\ proxy' = [proxy EXCEPT ![p] =
                     after_ensure(rec, [Ok(Unwrap(cells[c].cookie))
                                          EXCEPT !.err = "cached"])]
               /\ cells' = DropUnreferenced(cells, sessions, proxy')
          ELSE /\ proxy' = [proxy EXCEPT ![p].pc = "login",
                                         ![p].logins = rec.logins + 1]
               /\ cells' = [cells EXCEPT ![c].locked = TRUE]
     /\ UNCHANGED <<catalog, file, tmp, sessions, upd, freshDue, probe, readers, versions>>

\* session.lock().await and the look at the cached cookie: it is returned
\* unless force, otherwise the login request is sent with the lock held.
EnsureLock(p) ==
  LET rec == proxy[p]
      c == rec.cell
  IN /\ rec.pc = "lock"
     /\ ~cells[c].locked
     /\ IF IsSome(cells[c].cookie) /\ ~rec.force
          THEN /\ proxy' = [proxy EXCEPT ![p] =
                     after_ensure(rec, [Ok(Unwrap(cells[c].cookie))
                                          EXCEPT !.err = "cached"])]
               /\ cells' = DropUnreferenced(cells, sessions, proxy')
          ELSE /\ proxy' = [proxy EXCEPT ![p].pc = "login",
                                         ![p].logins = rec.logins + 1]
               /\ cells' = [cells EXCEPT ![c].locked = TRUE]
     /\ UNCHANGED <<catalog, file, tmp, sessions, upd, freshDue, probe, readers, versions>>

\* The login response arrives.
EnsureLogin(p, answers) ==
  /\ proxy[p].pc = "login"
  /\ \E a \in answers : LoginReturns(p, login_result(LoginAnswer(a, Unwrap(proxy[p].entry))))
  /\ UNCHANGED <<catalog, file, tmp, sessions, upd, freshDue, probe, readers, versions>>

-----------------------------------------------------------------------------
(* handle_proxy *)

\* http::HeaderMap: the header lines in order, the names in lower case; a
\* value is a sequence of tokens.
Header(name, value) == [name |-> name, value |-> value]

\* HeaderMap::remove, for each of the names: every value of the name goes.
header_remove(headers, names) == SelectSeq(headers, LAMBDA h : h.name \notin names)

header_values(headers, name) == SelectSeq(headers, LAMBDA h : h.name = name)

\* HeaderMap::get: the first value of the name.
header_get(headers, name) ==
  IF header_values(headers, name) = <<>> THEN None
  ELSE Some(header_values(headers, name)[1].value)

\* HeaderMap::insert: the value replaces every value of the name.
header_insert(headers, name, value) ==
  Append(header_remove(headers, {name}), Header(name, value))

\* HeaderValue::from_str: Err on a control character.
from_str(text) ==
  IF \E i \in 1..Len(text) : text[i] = CTL THEN None ELSE Some(text)

\* str::split(',')
RECURSIVE split(_, _)
split(s, sep) ==
  IF index_of(s, sep, 1) = 0 THEN <<s>>
  ELSE <<before(s, sep)>> \o split(after(s, sep), sep)

to_ascii_lowercase(tok) ==
  CASE tok = "X-Foo" -> "x-foo"
    [] tok = "Keep-Alive" -> "keep-alive"
    [] tok = "TE" -> "te"
    [] OTHER -> tok

\* HeaderName::from_bytes of a trimmed, lower-cased token of a Connection
\* value: a name is one token, and neither blank nor a separator.
header_name(token) ==
  IF Len(token) = 1 /\ token[1] \notin {SP, ",", ";", "=", OPAQUE, CTL}
    THEN Some(to_ascii_lowercase(token[1]))
    ELSE None

\* The for loop of remove_hop_headers over conn.split(',').
RECURSIVE remove_named(_, _)
remove_named(headers, tokens) ==
  IF tokens = <<>> THEN headers
  ELSE IF IsSome(header_name(trim(Head(tokens))))
    THEN remove_named(header_remove(headers, {Unwrap(header_name(trim(Head(tokens))))}),
                      Tail(tokens))
  ELSE remove_named(headers, Tail(tokens))

HopHeaders ==
  {"connection", "proxy-connection", "keep-alive", "proxy-authenticate",
   "proxy-authorization", "te", "trailer", "trailers", "transfer-encoding",
   "upgrade"}

\* remove_hop_headers: conn is the first value of the Connection header,
\* when it is a string.
remove_hop_headers(headers) ==
  LET got  == header_get(headers, "connection")
      conn == IF IsSome(got) THEN to_str(Unwrap(got)) ELSE None
  IN header_remove(
       IF IsSome(conn) THEN remove_named(headers, split(Unwrap(conn), ","))
       ELSE headers,
       HopHeaders)

\* A sanitizer that lets the caller's Authorization header through.
sanitize_request_keep_authorization(headers) ==
  header_remove(remove_hop_headers(headers), {"cookie", "host"})

sanitize_request_headers(headers) ==
  header_remove(remove_hop_headers(headers), {"cookie", "authorization", "host"})

\* A sanitizer that lets the upstream's Set-Cookie through.
sanitize_response_keep_set_cookie(headers) == remove_hop_headers(headers)

sanitize_response_headers(headers) ==
  header_remove(remove_hop_headers(headers), {"set-cookie"})

RECURSIVE trim_start_matches(_, _)
trim_start_matches(s, tok) ==
  IF s # <<>> /\ Head(s) = tok THEN trim_start_matches(Tail(s), tok) ELSE s

\* A join that drops one slash where the two boundary slashes meet.
join_path_dropping_one(a, b) ==
  LET aslash == a # <<>> /\ a[Len(a)] = "/"
      bslash == b # <<>> /\ Head(b) = "/"
  IN IF aslash /\ bslash THEN a \o Tail(b)
     ELSE IF ~aslash /\ ~bslash
       THEN IF a = <<>> THEN <<"/">> \o b ELSE a \o <<"/">> \o b
     ELSE a \o b

join_path(a, b) ==
  LET aslash == a # <<>> /\ a[Len(a)] = "/"
      bslash == b # <<>> /\ Head(b) = "/"
  IN IF aslash /\ bslash THEN a \o trim_start_matches(b, "/")
     ELSE IF ~aslash /\ ~bslash
       THEN IF a = <<>> THEN <<"/">> \o b ELSE a \o <<"/">> \o b
     ELSE a \o b

\* A target that drops the route prefix of the inbound path.
build_target_url_without_prefix(base, uri) ==
  [scheme |-> base.scheme, host |-> base.host, port |-> base.port,
   path |-> join_path(base.path, SubSeq(uri.path, 3, Len(uri.path))),
   query |-> uri.query]

\* build_target_url: the base with the joined path and the inbound query.
\* Url::path() is "/" for an http URL without a path.
build_target_url(base, uri) ==
  LET path      == IF base.path = <<>> THEN <<"/">> ELSE base.path
      base_path == IF path = <<"/">> THEN <<>> ELSE path
  IN [scheme |-> base.scheme, host |-> base.host, port |-> base.port,
      path |-> join_path(base_path, uri.path), query |-> uri.query]

\* RequestBuilder::basic_auth: the Authorization header of the credentials;
\* b64 stands for the base64 encoding of what follows it.
basic_auth(username, password) ==
  <<"Basic", SP, "b64">> \o username \o <<":">> \o password

\* The headers of the upstream request of forward_once: the caller's,
\* sanitized; origin, referer and the session cookie for a qbit backend;
\* Basic authentication for a trans backend with a username or a password.
upstream_headers(entry, headers, qbit_cookie) ==
  LET out_headers == sanitize_request_headers(headers)
      with_origin ==
        header_insert(header_insert(out_headers, "origin", entry.origin),
                      "referer", entry.origin \o <<"/">>)
  IN IF entry.cfg.kind = Qbit
       THEN IF IsSome(qbit_cookie)
              THEN header_insert(with_origin, "cookie", Unwrap(qbit_cookie))
              ELSE with_origin
     ELSE IF entry.cfg.username # EmptyStr \/ entry.cfg.password # EmptyStr
       THEN Append(out_headers,
                   Header("authorization",
                          basic_auth(entry.cfg.username, entry.cfg.password)))
     ELSE out_headers

upstream_request(entry, uri, headers, qbit_cookie) ==
  [target |-> build_target_url(entry.base, uri),
   headers |-> upstream_headers(entry, headers, qbit_cookie)]

\* The Cookie header of a caller whose cookie jar holds jar for tm_server_id.
inbound_headers(jar, headers) ==
  IF IsSome(jar)
    THEN <<Header("cookie", <<"tm_server_id", "=">> \o Unwrap(jar))>> \o headers
    ELSE headers

\* A retry test that does not look at the kind of the backend.
retry_on_403_of_any_kind(kind, status, attempt) == status = 403 /\ attempt = 1

\* A retry test that does not look at the attempt: every 403 is retried.
retry_on_every_403(kind, status, attempt) ==
  kind = Qbit /\ status = 403

\* The retry test of handle_proxy, reached once, after the first forward_once.
retry_on_403(kind, status, attempt) ==
  attempt = 1 /\ kind = Qbit /\ status = 403

\* The cookie header forward_once puts on the upstream request.
forward_cookie(entry, qbit_cookie) ==
  IF entry.cfg.kind = Qbit THEN qbit_cookie ELSE None

\* The task's record after read_body_bytes returned r for a picked entry.
after_body(rec, r) ==
  IF r.tag = "TooLarge" THEN [rec EXCEPT !.pc = "done", !.out = 413]
  ELSE IF r.tag = "Other" THEN [rec EXCEPT !.pc = "done", !.out = 400]
  ELSE IF Unwrap(rec.entry).cfg.kind = Qbit
    THEN [rec EXCEPT !.pc = "ensure", !.force = FALSE, !.attempt = 1]
  ELSE [rec EXCEPT !.pc = "forward", !.attempt = 1]

\* handle_proxy up to the first ensure_cookie: the entry is picked and cloned
\* under the read lock, then the body is read up to MAX_BODY_BYTES.
picked(rec, jar, stream, e, fresh) ==
  IF ~IsSome(e) THEN [rec EXCEPT !.pc = "panic", !.jar = jar]
  ELSE [after_body([rec EXCEPT !.jar = jar, !.stream = stream, !.entry = e],
                   read_body_bytes(stream, MAX_BODY_BYTES))
          EXCEPT !.must = fresh /\ Unwrap(e).cfg.kind = Qbit]

\* state.catalog.read().await of handle_proxy.
ProxyLock(p) ==
  /\ proxy[p].pc = "idle"
  /\ ~WriteHeld
  /\ proxy' = [proxy EXCEPT ![p].pc = "pick", ![p].lock = "read"]
  /\ UNCHANGED <<catalog, file, tmp, sessions, cells, upd, freshDue, probe,
                 readers, versions>>

ProxyPick(p, jars, streams, callers) ==
  /\ proxy[p].pc = "pick"
  /\ \E jar \in jars, stream \in streams, caller \in callers :
       proxy' = [proxy EXCEPT ![p] =
         picked([proxy[p] EXCEPT !.lock = "none", !.uri = caller.uri,
                   !.headers = inbound_headers(jar, caller.headers)],
                jar, stream, pick(catalog, jar), freshDue)]
  /\ freshDue' = (freshDue /\ ~proxy'[p].must)
  /\ UNCHANGED <<catalog, file, tmp, sessions, cells, upd, probe, readers, versions>>

\* forward_once and what handle_proxy does with its result: 502 when the send
\* failed, one forced re-login and a second forward on the first 403 of a
\* qbit backend, the upstream status otherwise.  0 stands for a failed send.
forwarded(rec, kind, r) ==
  IF r = 0 THEN [rec EXCEPT !.pc = "done", !.out = 502]
  ELSE IF retry_on_403(kind, r, rec.attempt)
    THEN [rec EXCEPT !.pc = "ensure", !.force = TRUE, !.attempt = 2,
                     !.forced = rec.forced + 1]
  ELSE [rec EXCEPT !.pc = "done", !.out = r,
                   !.out_headers = sanitize_response_headers(rec.reply)]

forward_once(rec, entry, r) ==
  [rec EXCEPT !.sent = Append(rec.sent, forward_cookie(entry, rec.cookie)),
              !.statuses = Append(rec.statuses, r),
              !.upstream = Append(rec.upstream,
                 upstream_request(entry, rec.uri, rec.headers, rec.cookie))]

Forward(p, results, replies) ==
  /\ proxy[p].pc = "forward"
  /\ \E r \in results, reply \in replies :
       proxy' = [proxy EXCEPT ![p] =
         forwarded([forward_once(proxy[p], Unwrap(proxy[p].entry), r)
                      EXCEPT !.reply = IF r = 0 THEN <<>> ELSE reply],
                   Unwrap(proxy[p].entry).cfg.kind, r)]
  /\ UNCHANGED <<catalog, file, tmp, sessions, cells, upd, freshDue, probe, readers, versions>>

-----------------------------------------------------------------------------
(* handle_config_update *)

ConfigUpdateServer(id, name, kind, base_url, username, password) ==
  [id |-> id, name |-> name, kind |-> kind, base_url |-> base_url,
   username |-> username, password |-> password]

ConfigUpdateRequest(default_server_id, servers) ==
  [default_server_id |-> default_server_id, servers |-> servers]

\* existing_passwords: id -> password of the live Catalog, under the read lock.
existing_passwords(cat) ==
  [id \in DOMAIN cat.servers |-> cat.servers[id].cfg.password]

\* A merge that takes an empty supplied password for an absent one.
merge_password_nonempty(password, id, existing) ==
  IF IsSome(password) /\ trim(Unwrap(password)) # EmptyStr THEN trim(Unwrap(password))
  ELSE IF id \in DOMAIN existing THEN existing[id]
  ELSE EmptyStr

\* The password an update stores for id: the trimmed value supplied, or the
\* existing password of the id, or the empty string.
merge_password(password, id, existing) ==
  IF IsSome(password) THEN trim(Unwrap(password))
  ELSE IF id \in DOMAIN existing THEN existing[id]
  ELSE EmptyStr

\* The body of the for loop over parsed.servers for one server, its fields
\* trimmed and its password merged: the checks in the order of the code.
\* A loop body that does not look at the ids it has seen.
check_update_without_seen_ids(id, name, kind, base_url, base, username, password, seen_ids) ==
  IF id = EmptyStr THEN Err("server.id is required")
  ELSE IF base_url = EmptyStr THEN Err("server.baseUrl is required")
  ELSE IF ~IsSome(base) THEN Err("server.baseUrl is invalid")
  ELSE IF ~IsSome(Unwrap(base).host) THEN Err("server.baseUrl is invalid")
  ELSE IF kind = Qbit /\ username = EmptyStr /\ password = EmptyStr
    THEN Err("qBittorrent server requires username/password")
  ELSE Ok(ServerConfig(id, IF name = EmptyStr THEN id ELSE name, kind,
                       base_url, username, password))

check_update(id, name, kind, base_url, base, username, password, seen_ids) ==
  IF id = EmptyStr THEN Err("server.id is required")
  ELSE IF id \in seen_ids THEN Err("duplicate server id")
  ELSE IF base_url = EmptyStr THEN Err("server.baseUrl is required")
  ELSE IF ~IsSome(base) THEN Err("server.baseUrl is invalid")
  ELSE IF ~IsSome(Unwrap(base).host) THEN Err("server.baseUrl is invalid")
  ELSE IF kind = Qbit /\ username = EmptyStr /\ password = EmptyStr
    THEN Err("qBittorrent server requires username/password")
  ELSE Ok(ServerConfig(id, IF name = EmptyStr THEN id ELSE name, kind,
                       base_url, username, password))

update_entry(s, seen_ids, existing) ==
  check_update(trim(s.id), trim(s.name), s.kind, trim(s.base_url),
               url_parse(trim(s.base_url)), trim(s.username),
               merge_password(s.password, trim(s.id), existing), seen_ids)

RECURSIVE update_loop(_, _, _, _, _)
RECURSIVE update_push(_, _, _, _, _, _)
update_push(list, i, servers, seen_ids, existing, e) ==
  IF ~e.ok THEN e
  ELSE update_loop(list, i + 1, Append(servers, Unwrap(e.val)),
                   seen_ids \cup {Unwrap(e.val).id}, existing)

update_loop(list, i, servers, seen_ids, existing) ==
  IF i > Len(list) THEN Ok(servers)
  ELSE update_push(list, i, servers, seen_ids, existing,
                   update_entry(list[i], seen_ids, existing))

ConfigFile(default_server_id, servers) ==
  [default_server_id |-> default_server_id, servers |-> servers]

\* What follows the loop: the empty list, then the default id.
update_default(default_server_id, looped) ==
  IF ~looped.ok THEN looped
  ELSE IF Unwrap(looped.val) = <<>> THEN Err("servers is empty")
  ELSE IF default_server_id = EmptyStr
    THEN Ok(ConfigFile(Unwrap(looped.val)[1].id, Unwrap(looped.val)))
  ELSE IF \E i \in 1..Len(Unwrap(looped.val)) :
            Unwrap(looped.val)[i].id = default_server_id
    THEN Ok(ConfigFile(default_server_id, Unwrap(looped.val)))
  ELSE Err("defaultServerId not found in servers")

\* The validation of handle_config_update: the ConfigFile to persist, or the
\* message of the 400 response.
validate_update(parsed, existing) ==
  update_default(trim(parsed.default_server_id),
                 update_loop(parsed.servers, 1, <<>>, {}, existing))

Finished(rec, status, msg) == [rec EXCEPT !.pc = "done", !.out = status, !.msg = msg]

\* The task's record once the request req has been validated against the
\* existing passwords: 400, or on to the write.
after_validate(rec, v) ==
  IF v.ok THEN [rec EXCEPT !.pc = "write", !.config = v.val]
  ELSE Finished(rec, 400, v.err)

\* A handler that keeps the read guard while it goes on to write the file.
validated_holding(rec, req, existing) ==
  after_validate([rec EXCEPT !.existing = existing], validate_update(req, existing))

validated(rec, req, existing) ==
  after_validate([rec EXCEPT !.lock = "none", !.existing = existing],
                 validate_update(req, existing))

\* The body is read and parsed, then state.catalog.read().await.
UpdateParse(u, requests) ==
  /\ upd[u].pc = "idle"
  /\ ~WriteHeld
  /\ \E req \in requests :
       upd' = [upd EXCEPT ![u].pc = "existing", ![u].lock = "read",
                          ![u].req = Some(req), ![u].file_before = file]
  /\ UNCHANGED <<catalog, file, tmp, sessions, cells, proxy, freshDue, probe,
                 readers, versions>>

\* The existing passwords are read and the read guard is dropped; then the
\* servers are validated and merged.
UpdateValidate(u) ==
  /\ upd[u].pc = "existing"
  /\ upd' = [upd EXCEPT ![u] =
       validated(upd[u], Unwrap(upd[u].req), existing_passwords(catalog))]
  /\ UNCHANGED <<catalog, file, tmp, sessions, cells, proxy, freshDue, probe, readers, versions>>

\* serde_json::to_vec_pretty and tokio::fs::write(&tmp, &raw): either may
\* fail; a write that fails may leave the temporary file as it was or hold a
\* part of the document.
write_outcome(rec, f) ==
  CASE f = "none" -> [rec EXCEPT !.pc = "rename"]
    [] f = "serialize" -> Finished(rec, 500, "serialize config failed")
    [] f \in {"create", "write"} -> Finished(rec, 500, "write config failed")

written_tmp(old, doc, f) ==
  CASE f = "none" -> Some(Written(doc))
    [] f \in {"serialize", "create"} -> old
    [] f = "write" -> Some(Partial(doc))

UpdateWrite(u, faults) ==
  /\ upd[u].pc = "write"
  /\ \E f \in {"none"} \cup (faults \cap {"serialize", "create", "write"}) :
       /\ tmp' = written_tmp(tmp, serialize_config(Unwrap(upd[u].config)), f)
       /\ upd' = [upd EXCEPT ![u] = write_outcome(upd[u], f)]
  /\ UNCHANGED <<catalog, file, sessions, cells, proxy, freshDue, probe, readers, versions>>

\* tokio::fs::rename(&tmp, config_path): it fails when the temporary file is
\* gone, and may fail for a reason of the file system.
rename_fails(faults) ==
  IF tmp = None THEN {TRUE} ELSE {FALSE} \cup {TRUE : f \in faults \cap {"rename"}}

UpdateRename(u, faults) ==
  /\ upd[u].pc = "rename"
  /\ \E failed \in rename_fails(faults) :
       IF failed
         THEN /\ upd' = [upd EXCEPT ![u].pc = "remove"]
              /\ UNCHANGED <<file, tmp>>
         ELSE /\ file' = tmp
              /\ tmp' = None
              /\ upd' = [upd EXCEPT ![u].pc = "load"]
  /\ UNCHANGED <<catalog, sessions, cells, proxy, freshDue, probe, readers, versions>>

\* `let _ = tokio::fs::remove_file(config_path)`: its result is ignored.
UpdateRemove(u, faults) ==
  /\ upd[u].pc = "remove"
  /\ \E failed \in {FALSE} \cup {TRUE : f \in faults \cap {"remove"}} :
       file' = IF failed THEN file ELSE None
  /\ upd' = [upd EXCEPT ![u].pc = "rename2"]
  /\ UNCHANGED <<catalog, tmp, sessions, cells, proxy, freshDue, probe, readers, versions>>

\* The second rename, after which the handler gives up with 500.
UpdateRename2(u, faults) ==
  /\ upd[u].pc = "rename2"
  /\ \E failed \in rename_fails(faults) :
       IF failed
         THEN /\ upd' = [upd EXCEPT ![u] = Finished(upd[u], 500, "write config failed")]
              /\ UNCHANGED <<file, tmp>>
         ELSE /\ file' = tmp
              /\ tmp' = None
              /\ upd' = [upd EXCEPT ![u].pc = "load"]
  /\ UNCHANGED <<catalog, sessions, cells, proxy, freshDue, probe, readers, versions>>

\* A reload that discards the sessions before it knows the file is valid.
UpdateLoadClearing(u, faults) ==
  /\ upd[u].pc = "load"
  /\ \E f \in {"none"} \cup (faults \cap {"read"}) :
       upd' = [upd EXCEPT ![u] =
         IF f = "read" \/ ~load(file).ok
           THEN Finished(upd[u], 400, "config is invalid")
           ELSE [upd[u] EXCEPT !.pc = "write_lock", !.new_catalog = load(file).val]]
  /\ sessions' = EmptyMap
  /\ cells' = DropUnreferenced(cells, EmptyMap, proxy)
  /\ UNCHANGED <<catalog, file, tmp, proxy, freshDue, probe, readers, versions>>

\* Catalog::load(&state.config_path): the file as it is now is read back.
after_load(rec, r) ==
  IF r.ok THEN [rec EXCEPT !.pc = "write_lock", !.new_catalog = r.val]
  ELSE Finished(rec, 400, "config is invalid")

UpdateLoad(u, faults) ==
  /\ upd[u].pc = "load"
  /\ \E f \in {"none"} \cup (faults \cap {"read"}) :
       upd' = [upd EXCEPT ![u] =
         after_load(upd[u], IF f = "read" THEN Err("read config") ELSE load(file))]
  /\ UNCHANGED <<catalog, file, tmp, sessions, cells, proxy, freshDue, probe, readers, versions>>

\* state.catalog.write().await.
\* A write() that does not wait for the readers.
UpdateWriteLockEarly(u) ==
  /\ upd[u].pc = "write_lock"
  /\ ~WriteHeld
  /\ upd' = [upd EXCEPT ![u].pc = "swap", ![u].lock = "write"]
  /\ UNCHANGED <<catalog, file, tmp, sessions, cells, proxy, freshDue, probe,
                 readers, versions>>

UpdateWriteLock(u) ==
  /\ upd[u].pc = "write_lock"
  /\ ~WriteHeld
  /\ ~ReadHeld
  /\ upd' = [upd EXCEPT ![u].pc = "swap", ![u].lock = "write"]
  /\ UNCHANGED <<catalog, file, tmp, sessions, cells, proxy, freshDue, probe,
                 readers, versions>>

\* `*catalog = new_catalog`; the write guard is dropped at the end of the block.
UpdateSwap(u) ==
  /\ upd[u].pc = "swap"
  /\ catalog' = Unwrap(upd[u].new_catalog)
  /\ versions' = versions \cup {Unwrap(upd[u].new_catalog)}
  /\ upd' = [upd EXCEPT ![u].pc = "map_lock", ![u].lock = "none"]
  /\ UNCHANGED <<file, tmp, sessions, cells, proxy, freshDue, probe, readers>>

\* self.sessions.lock().await of state.qbit.clear().
UpdateMapLock(u) ==
  /\ upd[u].pc = "map_lock"
  /\ ~MapHeld
  /\ upd' = [upd EXCEPT ![u].pc = "clear", ![u].lock = "map"]
  /\ UNCHANGED <<catalog, file, tmp, sessions, cells, proxy, freshDue, probe,
                 readers, versions>>

\* The map is emptied and its guard dropped; the handler then answers ok.
UpdateClear(u) ==
  /\ upd[u].pc = "clear"
  /\ sessions' = EmptyMap
  /\ cells' = DropUnreferenced(cells, EmptyMap, proxy)
  /\ upd' = [upd EXCEPT ![u] = Finished([upd[u] EXCEPT !.lock = "none"], 200, "ok")]
  /\ freshDue' = TRUE
  /\ UNCHANGED <<catalog, file, tmp, proxy, probe, readers, versions>>

-----------------------------------------------------------------------------
(* handle_status, handle_select, handle_config_get *)

\* The item handle_status clones for a Catalog entry.
status_item(entry) ==
  [id |-> entry.cfg.id, name |-> entry.cfg.name, kind |-> entry.cfg.kind,
   base_url |-> entry.cfg.base_url, base |-> entry.base]

Dial(state, latency_ms, reachable) ==
  [state |-> state, latency_ms |-> latency_ms, reachable |-> reachable]

\* A measurement that reports a dial cut off by the deadline as reachable.
dial_result_always_reachable(outcome, ms) == Dial(outcome, Some(ms), TRUE)

\* The match of measure_tcp_dial_latency on timeout_at(deadline, connect):
\* connected before the deadline, or refused, or cut off by the deadline.
dial_result(outcome, ms) ==
  IF outcome = "connected" THEN Dial(outcome, Some(ms), TRUE)
  ELSE Dial(outcome, None, FALSE)

\* measure_tcp_dial_latency before the connect: no host, no dial.
dial_start(base) ==
  IF IsSome(base.host) THEN Dial("pending", None, FALSE) ELSE Dial("nohost", None, FALSE)

\* lat_map.get(&id): the result inserted last for the id, or (None, false).
lat_map_get(items, dials, id) ==
  LET js == {j \in 1..Len(items) : items[j].id = id}
  IN IF js = {} THEN Dial("none", None, FALSE)
     ELSE dials[CHOOSE j \in js : \A k \in js : k <= j]

\* serde skips latencyMs when it is None.
ServerPublic(item, dial) ==
  [id |-> item.id, name |-> item.name, type |-> item.kind,
   baseUrl |-> item.base_url, latencyMs |-> dial.latency_ms,
   reachable |-> dial.reachable]

\* state.catalog.read().await of handle_status.
StatusLock(jars) ==
  /\ status_task.pc = "idle"
  /\ ~WriteHeld
  /\ \E jar \in jars :
       status_task' = [status_task EXCEPT !.pc = "selected", !.lock = "read",
                                          !.jar = jar]
  /\ UNCHANGED <<catalog, file, tmp, sessions, cells, proxy, upd, freshDue,
                 probe, select_task, get_task, versions>>

StatusSelected ==
  /\ status_task.pc = "selected"
  /\ status_task' = [status_task EXCEPT !.pc = "items",
       !.selected = Some(selected_id(catalog, status_task.jar))]
  /\ UNCHANGED <<catalog, file, tmp, sessions, cells, proxy, upd, freshDue,
                 probe, select_task, get_task, versions>>

\* The items are cloned in catalog order and the read guard is dropped; the
\* deadline is set and one dial per item begins.
StatusItems ==
  /\ status_task.pc = "items"
  /\ status_task' = [status_task EXCEPT !.pc = "dial", !.lock = "none",
       !.items = [i \in 1..Len(catalog.order) |->
                    status_item(catalog.servers[catalog.order[i]])],
       !.dials = [i \in 1..Len(catalog.order) |->
                    dial_start(catalog.servers[catalog.order[i]].base)]]
  /\ UNCHANGED <<catalog, file, tmp, sessions, cells, proxy, upd, freshDue,
                 probe, select_task, get_task, versions>>

\* TcpStream::connect of one item answers before the deadline: the
\* connection is made after ms milliseconds, or is refused.
StatusDial(latencies) ==
  /\ status_task.pc = "dial"
  /\ ~status_task.expired
  /\ \E i \in 1..Len(status_task.dials), outcome \in {"connected", "refused"},
        ms \in latencies :
       /\ status_task.dials[i].state = "pending"
       /\ status_task' = [status_task EXCEPT !.dials[i] = dial_result(outcome, ms)]
  /\ UNCHANGED <<catalog, file, tmp, sessions, cells, proxy, upd, freshDue,
                 probe, select_task, get_task, versions>>

\* The deadline, 1200 ms after the items were read, passes.
StatusDeadline ==
  /\ status_task.pc = "dial"
  /\ ~status_task.expired
  /\ status_task' = [status_task EXCEPT !.expired = TRUE]
  /\ UNCHANGED <<catalog, file, tmp, sessions, cells, proxy, upd, freshDue,
                 probe, select_task, get_task, versions>>

\* timeout_at returns Elapsed for a dial that has not answered.
StatusTimeout ==
  /\ status_task.pc = "dial"
  /\ status_task.expired
  /\ \E i \in 1..Len(status_task.dials) :
       /\ status_task.dials[i].state = "pending"
       /\ status_task' = [status_task EXCEPT !.dials[i] = dial_result("elapsed", 0)]
  /\ UNCHANGED <<catalog, file, tmp, sessions, cells, proxy, upd, freshDue,
                 probe, select_task, get_task, versions>>

\* join_all has every result; the servers of the response are built from
\* the items and the latency map.
StatusJoin ==
  /\ status_task.pc = "dial"
  /\ \A i \in 1..Len(status_task.dials) : status_task.dials[i].state # "pending"
  /\ status_task' = [status_task EXCEPT !.pc = "done",
       !.servers = [i \in 1..Len(status_task.items) |->
                      ServerPublic(status_task.items[i],
                                   lat_map_get(status_task.items, status_task.dials,
                                               status_task.items[i].id))]]
  /\ UNCHANGED <<catalog, file, tmp, sessions, cells, proxy, upd, freshDue,
                 probe, select_task, get_task, versions>>

\* The limit handle_select gives read_body_bytes.
SELECT_BODY_BYTES == 1024

\* The Set-Cookie value handle_select formats for an id.
select_cookie(id) ==
  <<"tm_server_id", "=">> \o id \o
  <<";", SP, "Path=/", ";", SP, "HttpOnly", ";", SP, "SameSite=Lax", ";", SP,
    "Max-Age=31536000">>

\* The body is read and parsed and the id trimmed; parsed is the id of the
\* SelectRequest, None for a body that is not one.
SelectParse(bodies) ==
  /\ select_task.pc = "idle"
  /\ \E body \in bodies :
       select_task' =
         IF read_body_bytes(body.stream, SELECT_BODY_BYTES).tag # "Ok"
           THEN Finished(select_task, 400, "invalid json body")
         ELSE IF ~IsSome(body.parsed)
           THEN Finished(select_task, 400, "invalid json body")
         ELSE IF trim(Unwrap(body.parsed)) = EmptyStr
           THEN Finished([select_task EXCEPT !.raw = body.parsed], 400, "id is required")
         ELSE [select_task EXCEPT !.pc = "lock", !.raw = body.parsed,
                                  !.id = trim(Unwrap(body.parsed))]
  /\ UNCHANGED <<catalog, file, tmp, sessions, cells, proxy, upd, freshDue,
                 probe, status_task, get_task, versions>>

\* state.catalog.read().await of handle_select.
SelectLock ==
  /\ select_task.pc = "lock"
  /\ ~WriteHeld
  /\ select_task' = [select_task EXCEPT !.pc = "check", !.lock = "read"]
  /\ UNCHANGED <<catalog, file, tmp, sessions, cells, proxy, upd, freshDue,
                 probe, status_task, get_task, versions>>

\* contains_key under the read guard; then the cookie, set when
\* HeaderValue::from_str takes it, and the ok answer.
SelectCheck ==
  /\ select_task.pc = "check"
  /\ select_task' =
       IF select_task.id \notin DOMAIN catalog.servers
         THEN Finished([select_task EXCEPT !.lock = "none"], 400, "unknown server id")
         ELSE [Finished([select_task EXCEPT !.lock = "none"], 200, "ok")
                 EXCEPT !.set_cookie = from_str(select_cookie(select_task.id))]
  /\ UNCHANGED <<catalog, file, tmp, sessions, cells, proxy, upd, freshDue,
                 probe, status_task, get_task, versions>>

\* A public view that tells one password from another.
ConfigServerPublicByValue(cfg) ==
  [id |-> cfg.id, name |-> cfg.name, type |-> cfg.kind, baseUrl |-> cfg.base_url,
   username |-> cfg.username, hasPassword |-> cfg.password = <<"p">>]

ConfigServerPublic(cfg) ==
  [id |-> cfg.id, name |-> cfg.name, type |-> cfg.kind, baseUrl |-> cfg.base_url,
   username |-> cfg.username, hasPassword |-> cfg.password # EmptyStr]

ConfigResponse(default_server_id, servers) ==
  [schema |-> 1, defaultServerId |-> default_server_id, servers |-> servers]

\* state.catalog.read().await of handle_config_get.
GetLock ==
  /\ get_task.pc = "idle"
  /\ ~WriteHeld
  /\ get_task' = [get_task EXCEPT !.pc = "default", !.lock = "read"]
  /\ UNCHANGED <<catalog, file, tmp, sessions, cells, proxy, upd, freshDue,
                 probe, status_task, select_task, versions>>

GetDefault ==
  /\ get_task.pc = "default"
  /\ get_task' = [get_task EXCEPT !.pc = "servers",
                                  !.default_server_id = Some(catalog.default_id)]
  /\ UNCHANGED <<catalog, file, tmp, sessions, cells, proxy, upd, freshDue,
                 probe, status_task, select_task, versions>>

\* The servers are built in catalog order, the guard is dropped and the
\* response is made.
GetServers ==
  /\ get_task.pc = "servers"
  /\ get_task' = [get_task EXCEPT !.pc = "done", !.lock = "none",
       !.servers = [i \in 1..Len(catalog.order) |->
                      ConfigServerPublic(catalog.servers[catalog.order[i]].cfg)],
       !.out = Some(ConfigResponse(Unwrap(get_task.default_server_id),
                 [i \in 1..Len(catalog.order) |->
                    ConfigServerPublic(catalog.servers[catalog.order[i]].cfg)]))]
  /\ UNCHANGED <<catalog, file, tmp, sessions, cells, proxy, upd, freshDue,
                 probe, status_task, select_task, versions>>

-----------------------------------------------------------------------------
(* Inputs *)

A == <<"a">>

B == <<"b">>

Z == <<"z">>

User == <<"u">>

Pass == <<"p">>

Pass2 == <<"q">>

Url1 == <<"http:", "//h1", ":8080">>

Url2 == <<"http:", "//h2", ":9091">>

JsonServer(id, kind, base_url, username, password) ==
  [id |-> id, name |-> EmptyStr, type |-> kind, baseUrl |-> base_url,
   username |-> username, password |-> password]

JsonConfig(default_server_id, servers) ==
  [defaultServerId |-> default_server_id, servers |-> servers]

\* Configuration files the service may be started with; those that
\* Catalog::load rejects end the process at startup.
StartDocs ==
  { JsonConfig(A, <<JsonServer(A, Qbit, Url1, User, Pass),
                    JsonServer(<<SP, "b">>, Trans, Url2, EmptyStr, EmptyStr)>>),
    JsonConfig(EmptyStr, <<JsonServer(A, Qbit, Url1, EmptyStr, EmptyStr)>>),
    JsonConfig(EmptyStr, <<JsonServer(A, Qbit, Url1, User, Pass),
                           JsonServer(<<"a", SP>>, Trans, Url2, EmptyStr, EmptyStr)>>),
    JsonConfig(Z, <<JsonServer(A, Qbit, Url1, User, Pass)>>),
    JsonConfig(EmptyStr, <<>>) }

\* The tm_server_id cookie of a request: absent, empty, blank, a configured
\* id, an id with blanks around it, an unknown id.
AllJars == {None, Some(EmptyStr), Some(<<SP>>), Some(A), Some(<<SP, "b", SP>>), Some(Z)}

Jars == {None, Some(<<SP, "b", SP>>)}

Streams == {<<Chunk(1)>>}

Answers == {"forbidden", "ok"}

Results == {0, 200, 403}

Requests ==
  { ConfigUpdateRequest(EmptyStr,
      <<ConfigUpdateServer(A, EmptyStr, Qbit, Url1, User, None)>>),
    ConfigUpdateRequest(EmptyStr,
      <<ConfigUpdateServer(A, EmptyStr, Qbit, Url1, User, Some(Pass2)),
        ConfigUpdateServer(B, EmptyStr, Trans, Url2, EmptyStr, None)>>),
    ConfigUpdateRequest(EmptyStr,
      <<ConfigUpdateServer(A, EmptyStr, Qbit, Url1, EmptyStr, Some(<<SP>>))>>) }

Faults == {"serialize", "create", "write", "rename", "remove", "read"}

\* Update requests over one or two servers: the password absent, empty,
\* blank or set, for an id the Catalog has and for one it has not.
ConfigServers ==
  {ConfigUpdateServer(A, EmptyStr, Qbit, Url1, User, pw) :
     pw \in {None, Some(EmptyStr), Some(<<SP, "q">>)}}
  \cup {ConfigUpdateServer(A, EmptyStr, Qbit, Url1, EmptyStr, pw) :
     pw \in {None, Some(<<SP>>)}}
  \cup {ConfigUpdateServer(<<"b", SP>>, EmptyStr, k, Url2, EmptyStr, None) :
     k \in {Qbit, Trans}}

SeqsUpTo(S, n) == UNION {[1..k -> S] : k \in 0..n}

ConfigRequests ==
  {ConfigUpdateRequest(d, servers) :
     d \in {EmptyStr, <<SP, "b">>}, servers \in SeqsUpTo(ConfigServers, MaxServers)}

\* Configuration documents for Catalog::load: ids empty, blank, padded or
\* repeated, base URLs empty, padded, without a host or without a scheme.
LoadIds == {EmptyStr, <<SP>>, A, <<SP, "a">>, B}

LoadUrls == {EmptyStr, Url1, <<SP>> \o Url2, <<"unix:", "/sock">>, <<"h1">>, <<"http:">>}

LoadServers == {JsonServer(id, Qbit, url, User, Pass) : id \in LoadIds, url \in LoadUrls}

LoadDocs ==
  {JsonConfig(d, servers) :
     d \in {EmptyStr, <<SP>>, A, <<"b", SP>>, Z},
     servers \in SeqsUpTo(LoadServers, MaxServers)}

\* Body streams: chunks around the ceiling, and a read error.
ProxyChunks ==
  {Chunk(n) : n \in {1, MAX_BODY_BYTES - 1, MAX_BODY_BYTES, MAX_BODY_BYTES + 1}}
  \cup {ChunkErr}

ProxyStreams == SeqsUpTo(ProxyChunks, MaxChunks)

ProxyAnswers == {"unsent", "forbidden", "fails", "nocookie", "badcookie", "ok", "ok2"}

ProxyResults == {0, 200, 403, 502}

\* Uris of the two proxied routes, /api/*path and /transmission/*path.
ApiUri == [path |-> <<"/", "api", "/", "v2">>, query |-> Some(<<"q=1">>)]

TransUri == [path |-> <<"/", "transmission", "/", "x">>, query |-> None]

PlainHeaders == <<Header("accept", <<"*/*">>)>>

\* A caller and an upstream response without anything to strip.
Callers == {[uri |-> ApiUri, headers |-> PlainHeaders]}

Replies == {<<Header("content-type", <<"text/plain">>)>>}

-----------------------------------------------------------------------------
(* The service *)

Started(doc, loaded) ==
  /\ loaded.ok
  /\ file = Some(Written(doc))
  /\ catalog = Unwrap(loaded.val)

\* serve: the Catalog is loaded from the configuration file, or the process
\* ends; no session, no task.
InitFrom(docs) ==
  /\ \E doc \in docs : Started(doc, load(Some(Written(doc))))
  /\ tmp = None
  /\ sessions = EmptyMap
  /\ cells = [c \in Cells |-> FreshCell]
  /\ proxy = [p \in Proxies |-> IdleProxy]
  /\ upd = [u \in Updates |-> IdleUpdate]
  /\ freshDue = FALSE
  /\ probe = IdleProbe
  /\ status_task = IdleStatus
  /\ select_task = IdleSelect
  /\ get_task = IdleConfigGet
  /\ versions = {catalog}

Init == InitFrom(StartDocs)

\* Tasks are numbered in the order their requests arrive.
ProxyArrives(p) == IF p = 1 THEN TRUE ELSE proxy[p - 1].pc # "idle"

UpdateArrives(u) == IF u = 1 THEN TRUE ELSE upd[u - 1].pc # "idle"

ProxySteps(p, jars, streams, answers, results, callers, replies) ==
  \/ ProxyArrives(p) /\ ProxyLock(p)
  \/ ProxyPick(p, jars, streams, callers)
  \/ EnsureStart(p)
  \/ EnsureSession(p)
  \/ EnsureLock(p)
  \/ EnsureLogin(p, answers)
  \/ Forward(p, results, replies)

UpdateSteps(u, requests, faults) ==
  \/ UpdateArrives(u) /\ UpdateParse(u, requests)
  \/ UpdateValidate(u)
  \/ UpdateWrite(u, faults)
  \/ UpdateRename(u, faults)
  \/ UpdateRemove(u, faults)
  \/ UpdateRename2(u, faults)
  \/ UpdateLoad(u, faults)
  \/ UpdateWriteLock(u)
  \/ UpdateSwap(u)
  \/ UpdateMapLock(u)
  \/ UpdateClear(u)

\* Proxied requests running concurrently with one configuration update.
Next ==
  \/ \E p \in Proxies :
       ProxySteps(p, Jars, Streams, Answers, Results, Callers, Replies)
  \/ UpdateSteps(1, Requests, Faults)

Spec == Init /\ [][Next]_vars

\* The same, started with two qbit backends.
SessionDocs ==
  { JsonConfig(A, <<JsonServer(A, Qbit, Url1, User, Pass),
                    JsonServer(B, Qbit, Url2, User, Pass)>>) }

InitSessions == InitFrom(SessionDocs)

SpecSessions == InitSessions /\ [][Next]_vars

\* Configuration updates running concurrently with each other.
NextConfig == \E u \in Updates : UpdateSteps(u, ConfigRequests, Faults)

SpecConfig == Init /\ [][NextConfig]_vars

\* Proxied requests running concurrently with each other, over every kind
\* of body, login answer and upstream result.
NextProxy ==
  \E p \in Proxies :
    ProxySteps(p, Jars, ProxyStreams, ProxyAnswers, ProxyResults, Callers, Replies)

SpecProxy == Init /\ [][NextProxy]_vars

\* Proxied requests over every kind of caller header, inbound path and
\* upstream response header, for qbit and trans backends with and without
\* credentials and with and without a path in the base URL.
Url3 == <<"http:", "//h2", ":9091", "/", "rpc", "/">>

RelayDocs ==
  { JsonConfig(A, <<JsonServer(A, Qbit, Url1, User, Pass),
                    JsonServer(B, Trans, Url2, EmptyStr, EmptyStr)>>),
    JsonConfig(A, <<JsonServer(A, Qbit, Url1, User, Pass),
                    JsonServer(B, Trans, Url2, User, EmptyStr)>>),
    JsonConfig(B, <<JsonServer(B, Trans, Url3, EmptyStr, Pass)>>) }

RelayJars == {None, Some(B)}

\* A caller that sends its own Cookie, Authorization and Host headers.
SecretHeaders ==
  <<Header("host", <<"gw">>), Header("authorization", <<"Bearer", SP, "t">>),
    Header("cookie", <<"sid", "=", "evil">>), Header("accept", <<"*/*">>)>>

\* A caller that names a header in its Connection header.
HopHeadersSent ==
  <<Header("connection", <<"X-Foo", ",", SP, "keep-alive">>),
    Header("x-foo", <<"1">>), Header("te", <<"trailers">>),
    Header("accept", <<"*/*">>)>>

RelayCallers ==
  { [uri |-> ApiUri, headers |-> PlainHeaders],
    [uri |-> ApiUri, headers |-> SecretHeaders],
    [uri |-> TransUri, headers |-> SecretHeaders],
    [uri |-> TransUri, headers |-> HopHeadersSent] }

RelayResults == {200, 403}

\* Upstream response headers: a Set-Cookie and fixed hop-by-hop headers; a
\* header named in the Connection header; a header named in the second of
\* two Connection header lines.
RelayReplies ==
  { <<Header("set-cookie", <<"SID", "=", "x">>), Header("connection", <<"close">>),
      Header("keep-alive", <<"timeout">>), Header("content-type", <<"text/plain">>)>>,
    <<Header("connection", <<"X-Foo">>), Header("x-foo", <<"1">>),
      Header("content-type", <<"text/plain">>)>>,
    <<Header("connection", <<"close">>), Header("connection", <<"x-foo">>),
      Header("x-foo", <<"1">>)>> }

InitRelay == InitFrom(RelayDocs)

NextRelay ==
  \E p \in Proxies :
    ProxySteps(p, RelayJars, Streams, Answers, RelayResults, RelayCallers,
               RelayReplies)

SpecRelay == InitRelay /\ [][NextRelay]_vars

StatusSteps(jars, latencies) ==
  \/ StatusLock(jars)
  \/ StatusSelected
  \/ StatusItems
  \/ StatusDial(latencies)
  \/ StatusDeadline
  \/ StatusTimeout
  \/ StatusJoin

\* A status check on its own.  The runtime runs a task that can go on, and
\* the deadline passes; when a dial answers is up to the network, and
\* whether a request arrives is up to the caller.
NextStatus == StatusSteps(AllJars, {1, 1199})

SpecStatus ==
  /\ Init
  /\ [][NextStatus]_vars
  /\ WF_vars(StatusSelected)
  /\ WF_vars(StatusItems)
  /\ WF_vars(StatusDeadline)
  /\ WF_vars(StatusTimeout)
  /\ WF_vars(StatusJoin)

\* Every reader of the Catalog, one of each, running concurrently with one
\* configuration update.  One start document has an id with a control
\* character: Catalog::load trims ids and takes any that is not empty.
ReaderDocs ==
  { JsonConfig(A, <<JsonServer(A, Qbit, Url1, User, Pass),
                    JsonServer(B, Trans, Url2, EmptyStr, EmptyStr)>>),
    JsonConfig(EmptyStr, <<JsonServer(<<"c", CTL>>, Trans, Url2, EmptyStr, EmptyStr)>>) }

\* An update that changes the password of a and nothing else, and one that
\* changes the default, the order and the entries.
ReaderRequests ==
  { ConfigUpdateRequest(A,
      <<ConfigUpdateServer(A, EmptyStr, Qbit, Url1, User, Some(Pass2)),
        ConfigUpdateServer(B, EmptyStr, Trans, Url2, EmptyStr, None)>>),
    ConfigUpdateRequest(B,
      <<ConfigUpdateServer(B, EmptyStr, Trans, Url1, User, Some(Pass2)),
        ConfigUpdateServer(A, EmptyStr, Qbit, Url2, User, None)>>) }

\* Bodies of a select request: too large, not a SelectRequest, a blank id, a
\* configured id with blanks around it, an unknown id, the id with the
\* control character.
SelectBodies ==
  { [stream |-> <<Chunk(SELECT_BODY_BYTES), Chunk(1)>>, parsed |-> Some(A)],
    [stream |-> <<Chunk(1)>>, parsed |-> None],
    [stream |-> <<Chunk(1)>>, parsed |-> Some(<<SP>>)],
    [stream |-> <<Chunk(SELECT_BODY_BYTES)>>, parsed |-> Some(<<SP, "b", SP>>)],
    [stream |-> <<Chunk(1)>>, parsed |-> Some(Z)],
    [stream |-> <<Chunk(1)>>, parsed |-> Some(<<"c", CTL>>)] }

InitReaders == InitFrom(ReaderDocs)

NextReaders ==
  \/ ProxySteps(1, {None}, Streams, {"ok"}, {200}, Callers, Replies)
  \/ UpdateSteps(1, ReaderRequests, {"rename"})
  \/ StatusSteps({None}, {1})
  \/ SelectParse(SelectBodies)
  \/ SelectLock
  \/ SelectCheck
  \/ GetLock
  \/ GetDefault
  \/ GetServers

SpecReaders == InitReaders /\ [][NextReaders]_vars

\* Catalog::load applied to one parsed configuration document.
LoadProbe ==
  /\ probe.op = "idle"
  /\ \E doc \in LoadDocs :
       probe' = [op |-> "load", arg |-> Some(doc),
                 res |-> Some(load_config(deserialize_config(doc)))]
  /\ UNCHANGED <<catalog, file, tmp, sessions, cells, proxy, upd, freshDue,
                 readers, versions>>

NextLoad == LoadProbe

SpecLoad == Init /\ [][NextLoad]_vars

\* Login responses: sent or not, the status, the body with or without "Ok",
\* and up to MaxSetCookies Set-Cookie values: a cookie with attributes, one
\* with blanks around its name and value, one without a name, an empty
\* value, a cookie whose value is not visible ASCII, a name without '='.
MaxSetCookies == 2

SetCookieValues ==
  { <<"SID", "=", "x", ";", SP, "HttpOnly">>,
    <<SP, "lang", SP, "=", SP, "en">>,
    <<SP, "=", "x", ";", "Path=/">>,
    <<>>,
    <<"SID", "=", OPAQUE>>,
    <<"flag">> }

LoginResponses ==
  {LoginResponse(sent_ok, status, body_ok, set_cookie) :
     sent_ok \in BOOLEAN, status \in {200, 403}, body_ok \in BOOLEAN,
     set_cookie \in SeqsUpTo(SetCookieValues, MaxSetCookies)}

\* ensure_cookie from the response on, applied to one response with the lock
\* of a cell held: what it returns and what it leaves in the cell.
LoginProbe ==
  /\ probe.op = "idle"
  /\ \E r \in LoginResponses, cookie \in {None, Some(<<"SID", "=", "old">>)} :
       probe' = [op |-> "login",
                 arg |-> Some([resp |-> r,
                               cell |-> [cookie |-> cookie, locked |-> TRUE]]),
                 res |-> Some([result |-> login_result(r),
                               cell |-> stored_cell([cookie |-> cookie, locked |-> TRUE],
                                                    login_result(r))])]
  /\ UNCHANGED <<catalog, file, tmp, sessions, cells, proxy, upd, freshDue,
                 readers, versions>>

\* Paths of up to MaxPath tokens, a token being a slash or a segment, and
\* the inbound path /api/v1.
MaxPath == 3

Paths == SeqsUpTo({"/", "x", "y"}, MaxPath) \cup {<<"/", "api", "/", "v1">>}

\* join_path applied to one base path and one request path.
JoinProbe ==
  /\ probe.op = "idle"
  /\ \E a \in Paths, b \in Paths :
       probe' = [op |-> "join", arg |-> Some(<<a, b>>), res |-> Some(join_path(a, b))]
  /\ UNCHANGED <<catalog, file, tmp, sessions, cells, proxy, upd, freshDue,
                 readers, versions>>

NextProbe == LoginProbe \/ JoinProbe

SpecProbe == Init /\ [][NextProbe]_vars

-----------------------------------------------------------------------------
(* Properties of handle_proxy *)

Last(s) == s[Len(s)]

\* What handle_proxy answers after its last forward_once returned status.
answered(status) == IF status = 0 THEN 502 ELSE status

first_is_403(rec) ==
  /\ IsSome(rec.entry)
  /\ Unwrap(rec.entry).cfg.kind = Qbit
  /\ Len(rec.statuses) >= 1
  /\ rec.statuses[1] = 403

\* C1: a qbit request whose first forward is answered 403 makes exactly one
\* forced re-login and is forwarded exactly once more; the second upstream
\* response is what the caller gets, also when it is 403 again; no request
\* is forwarded more than twice or forces more than one re-login, and the
\* forced re-login happens only after a first 403 of a qbit backend.
C1_OneForcedRelogin ==
  \A p \in Proxies :
    /\ Len(proxy[p].statuses) <= 2
    /\ proxy[p].forced <= 1
    /\ proxy[p].forced = 1 <=> first_is_403(proxy[p])
    /\ Len(proxy[p].statuses) = 2 => first_is_403(proxy[p])
    /\ proxy[p].pc = "done" /\ first_is_403(proxy[p]) =>
         /\ Len(proxy[p].statuses) = 2
         /\ proxy[p].out = answered(proxy[p].statuses[2])

C1_Witness ==
  \E p \in Proxies :
    /\ proxy[p].pc = "done"
    /\ proxy[p].statuses = <<403, 403>>
    /\ proxy[p].forced = 1
    /\ proxy[p].logins = 2
    /\ proxy[p].out = 403

RECURSIVE Total(_)
Total(stream) == IF stream = <<>> THEN 0 ELSE Head(stream).len + Total(Tail(stream))

NoReadError(stream) == \A i \in 1..Len(stream) : stream[i].ok

\* C9: a request body of more than MAX_BODY_BYTES bytes is answered 413
\* before any login and before any forward; a body of exactly
\* MAX_BODY_BYTES bytes (or less) is never answered 413 and its request
\* does not end without having been forwarded.
C9_BodyCeiling ==
  \A p \in Proxies :
    proxy[p].pc \notin {"idle", "panic"} /\ NoReadError(proxy[p].stream) =>
      IF Total(proxy[p].stream) > MAX_BODY_BYTES
        THEN /\ proxy[p].pc = "done"
             /\ proxy[p].out = 413
             /\ proxy[p].statuses = <<>>
             /\ proxy[p].logins = 0
             /\ proxy[p].auth1 = ""
        ELSE /\ proxy[p].out # 413
             /\ proxy[p].pc = "done" => Len(proxy[p].statuses) >= 1

C9_Witness ==
  \E p, q \in Proxies :
    /\ proxy[p].pc = "done"
    /\ Len(proxy[p].stream) = 2
    /\ Total(proxy[p].stream) = MAX_BODY_BYTES
    /\ proxy[p].out = 200
    /\ proxy[q].pc = "done"
    /\ NoReadError(proxy[q].stream)
    /\ Total(proxy[q].stream) = MAX_BODY_BYTES + 1
    /\ proxy[q].out = 413

\* The ways ensure_cookie ends with an AuthError: no credentials, or a login
\* the backend answered and rejected.
AuthErrors ==
  {"requires username/password", "qB login failed: status",
   "qB login failed: body", "qB login did not set cookies"}

\* C10 as stated: a request whose first session acquisition ends with an
\* AuthError is answered with a 5xx status.
C10_AuthErrorIs5xx ==
  \A p \in Proxies :
    proxy[p].pc = "done" /\ proxy[p].auth1 \in AuthErrors =>
      proxy[p].out \in 500..599

\* C10: when the first session acquisition of a request ends with an
\* AuthError the error is dropped: the request is forwarded without a
\* session cookie, and the caller gets 502 only when the send of the last
\* forward failed, the upstream status of the last forward otherwise.
C10_AuthErrorIsDropped ==
  \A p \in Proxies :
    proxy[p].auth1 \in AuthErrors =>
      /\ Len(proxy[p].sent) >= 1 => proxy[p].sent[1] = None
      /\ proxy[p].pc = "done" =>
           /\ Len(proxy[p].statuses) >= 1
           /\ proxy[p].out = answered(Last(proxy[p].statuses))

C10_Witness ==
  \E p \in Proxies :
    /\ proxy[p].pc = "done"
    /\ proxy[p].auth1 = "qB login failed: status"
    /\ proxy[p].sent = <<None>>
    /\ proxy[p].statuses = <<200>>
    /\ proxy[p].out = 200

-----------------------------------------------------------------------------
(* Properties of the sessions across a configuration update *)

\* The ways the first ensure_cookie of a request ends once it has sent a
\* login request.
LoginEnds ==
  {"ok", "qB login request failed", "qB login failed: status",
   "qB login failed: body", "qB login did not set cookies"}

\* C2: the first request to a qbit backend that begins after a configuration
\* update has completed successfully sends a login request before its first
\* forward, whatever was cached before the update and whatever requests
\* were in flight during it.
C2_FreshLoginAfterUpdate ==
  \A p \in Proxies :
    proxy[p].must /\ proxy[p].statuses # <<>> => proxy[p].auth1 \in LoginEnds

-----------------------------------------------------------------------------
(* Properties of handle_config_update *)

\* A step of update task u.
UpdateStepped(u) == upd'[u] # upd[u]

\* C3: a configuration update touches the live Catalog, the session map and
\* the session cells only in its last two steps, the swap and the clear,
\* which nothing can fail; an update that ends with an error status (at the
\* validation, the serialization, the write, the rename or the reload) has
\* taken neither step, so each of its steps left the Catalog, the map and
\* every cell with its cached token as they were.
C3_FailedUpdateTouchesNothing ==
  [][\A u \in Updates :
       UpdateStepped(u) =>
         /\ upd[u].pc \notin {"swap", "clear"} =>
              UNCHANGED <<catalog, sessions, cells>>
         /\ upd'[u].out # 0 /\ upd'[u].out # 200 =>
              /\ upd[u].pc \in {"existing", "write", "rename2", "load"}
              /\ upd'[u].pc = "done"
         /\ upd[u].pc \in {"swap", "clear"} => upd'[u].out \in {0, 200}]_vars

C3_Witness ==
  \E u \in Updates, id \in DOMAIN sessions :
    /\ upd[u].pc = "done"
    /\ upd[u].out = 400
    /\ upd[u].msg = "config is invalid"
    /\ IsSome(cells[sessions[id]].cookie)

\* The id selected_id is to return for jar.
selected_spec(cat, jar) ==
  IF IsSome(jar) /\ trim(Unwrap(jar)) \in DOMAIN cat.servers
    THEN trim(Unwrap(jar))
    ELSE cat.default_id

\* C7: for every value of the selection cookie, selected_id is the trimmed
\* value when it is a key of the live Catalog and the default id otherwise,
\* pick returns the entry of that id, and no request ever reaches the
\* expect of pick with a missing id.
C7_PickNeverFails ==
  /\ \A jar \in AllJars :
       /\ selected_id(catalog, jar) = selected_spec(catalog, jar)
       /\ IsSome(pick(catalog, jar))
       /\ Unwrap(pick(catalog, jar)) = catalog.servers[selected_spec(catalog, jar)]
  /\ \A p \in Proxies : proxy[p].pc # "panic"

C7_Witness ==
  \E p \in Proxies, u \in Updates :
    /\ upd[u].pc = "done"
    /\ upd[u].out = 200
    /\ B \notin DOMAIN catalog.servers
    /\ proxy[p].must
    /\ proxy[p].jar = Some(<<SP, "b", SP>>)
    /\ IsSome(proxy[p].entry)
    /\ Unwrap(proxy[p].entry).cfg.id = catalog.default_id

\* C4: whenever no configuration update is in progress, the live Catalog is
\* the Catalog that loading the configuration file produces.
C4_ServedMatchesPersisted ==
  (\A u \in Updates : upd[u].pc \in {"idle", "done"}) =>
    /\ load(file).ok
    /\ catalog = Unwrap(load(file).val)

\* The password an update is to store for the server s of its request, cat
\* being the live Catalog when the request is validated.
expected_password(s, cat) ==
  IF IsSome(s.password) THEN trim(Unwrap(s.password))
  ELSE IF trim(s.id) \in DOMAIN cat.servers
    THEN cat.servers[trim(s.id)].cfg.password
  ELSE EmptyStr

no_credentials(s, cat) ==
  /\ s.kind = Qbit
  /\ trim(s.username) = EmptyStr
  /\ expected_password(s, cat) = EmptyStr

passwords_merged(config, req, cat) ==
  /\ Len(config.servers) = Len(req.servers)
  /\ \A i \in 1..Len(req.servers) :
       config.servers[i].password = expected_password(req.servers[i], cat)

\* C5: when an update request is validated, the configuration it goes on to
\* write holds, for each server, the supplied password (trimmed) when one
\* was supplied, the empty string included, the password the live Catalog
\* has for the id when none was supplied, and the empty string when the id
\* is new; a request with a qbit server left with an empty username and an
\* empty password ends with 400 in that step, with nothing written and
\* nothing applied.
C5_PasswordMerge ==
  [][\A u \in Updates :
       upd[u].pc = "existing" /\ UpdateStepped(u) =>
         /\ upd'[u].pc = "write" =>
              passwords_merged(Unwrap(upd'[u].config), Unwrap(upd'[u].req), catalog)
         /\ (\E i \in 1..Len(Unwrap(upd'[u].req).servers) :
               no_credentials(Unwrap(upd'[u].req).servers[i], catalog)) =>
              /\ upd'[u].pc = "done"
              /\ upd'[u].out = 400
              /\ UNCHANGED <<catalog, file, tmp, sessions, cells>>]_vars

C5_Witness ==
  \E u, v \in Updates :
    /\ upd[u].pc = "write"
    /\ Len(Unwrap(upd[u].req).servers) = 2
    /\ Unwrap(upd[u].req).servers[1].password = None
    /\ Unwrap(upd[u].config).servers[1].password = Pass
    /\ Unwrap(upd[u].req).servers[2].password = None
    /\ Unwrap(upd[u].config).servers[2].password = EmptyStr
    /\ upd[v].pc = "done"
    /\ upd[v].out = 400
    /\ upd[v].msg = "qBittorrent server requires username/password"
    /\ Unwrap(upd[v].req).servers[1].password = Some(EmptyStr)

\* C6: the live Catalog is never empty, its default id is a key of its
\* entries, and its order lists every key of its entries exactly once and
\* nothing else.
C6_CatalogValid ==
  /\ DOMAIN catalog.servers # {}
  /\ catalog.default_id \in DOMAIN catalog.servers
  /\ {catalog.order[i] : i \in 1..Len(catalog.order)} = DOMAIN catalog.servers
  /\ \A i, j \in 1..Len(catalog.order) :
       catalog.order[i] = catalog.order[j] => i = j
  /\ \A id \in DOMAIN catalog.servers : catalog.servers[id].cfg.id = id

C6_Witness ==
  \E u \in Updates :
    /\ upd[u].pc = "done"
    /\ upd[u].out = 200
    /\ catalog.order = <<B, A>>
    /\ catalog.default_id = B
    /\ Unwrap(upd[u].req).default_server_id = <<SP, "b">>

-----------------------------------------------------------------------------
(* Properties of Catalog::load *)

\* A base URL with a scheme and a host, blanks around it aside.
has_scheme_and_host(url) ==
  /\ Len(trim(url)) >= 2
  /\ trim(url)[1] \in SpecialSchemes \cup OtherSchemes
  /\ trim(url)[2] \in HostTokens

\* The documents Catalog::load is to accept.
load_spec(doc) ==
  /\ doc.servers # <<>>
  /\ \A i \in 1..Len(doc.servers) : trim(doc.servers[i].id) # EmptyStr
  /\ \A i, j \in 1..Len(doc.servers) :
       trim(doc.servers[i].id) = trim(doc.servers[j].id) => i = j
  /\ \A i \in 1..Len(doc.servers) : has_scheme_and_host(doc.servers[i].baseUrl)
  /\ trim(doc.defaultServerId) # EmptyStr =>
       \E i \in 1..Len(doc.servers) :
         trim(doc.servers[i].id) = trim(doc.defaultServerId)

loaded_as_specified(doc, res) ==
  /\ res.ok <=> load_spec(doc)
  /\ res.ok /\ trim(doc.defaultServerId) = EmptyStr =>
       Unwrap(res.val).default_id = trim(doc.servers[1].id)

\* C8: Catalog::load accepts a parsed configuration document exactly when
\* its server list is not empty, every id is non-empty once trimmed, no
\* trimmed id repeats, every baseUrl parses with a scheme and a host, and
\* the defaultServerId, when non-empty once trimmed, is one of the ids; an
\* accepted document with an empty defaultServerId gets the id of its first
\* server as the default.
C8_LoadAcceptsExactly ==
  probe.op = "load" => loaded_as_specified(Unwrap(probe.arg), Unwrap(probe.res))

C8_Witness ==
  /\ probe.op = "load"
  /\ Unwrap(probe.res).ok
  /\ Len(Unwrap(probe.arg).servers) = 2
  /\ Unwrap(probe.arg).defaultServerId = <<SP>>
  /\ Unwrap(probe.arg).servers[1].id = <<SP, "a">>
  /\ Unwrap(Unwrap(probe.res).val).default_id = A
  /\ Unwrap(Unwrap(probe.res).val).order = <<A, B>>

-----------------------------------------------------------------------------
(* Properties of forward_once and of the response of handle_proxy *)

IsTransB(p) ==
  /\ IsSome(proxy[p].entry)
  /\ Unwrap(proxy[p].entry).cfg.kind = Trans
  /\ Unwrap(proxy[p].entry).cfg.base_url = Url2
  /\ proxy[p].uri = TransUri

has_credentials(cfg) == cfg.username # EmptyStr \/ cfg.password # EmptyStr

\* The Authorization header is the Basic one exactly when the backend has a
\* username or a password.
basic_iff_credentials(request, cfg) ==
  header_values(request.headers, "authorization") =
    IF has_credentials(cfg)
      THEN <<Header("authorization", basic_auth(cfg.username, cfg.password))>>
      ELSE <<>>

TargetOf(path) ==
  [scheme |-> "http:", host |-> Some("h2"), port |-> Some(":9091"),
   path |-> path, query |-> None]

\* C11, as stated: with a trans backend at http://h2:9091 selected, a request
\* to /transmission/x is forwarded to http://h2:9091/x, with Basic
\* authentication exactly when the backend has a username or a password.
C11_ForwardedWithoutPrefix ==
  \A p \in Proxies : \A k \in 1..Len(proxy[p].upstream) :
    IsTransB(p) =>
      /\ proxy[p].upstream[k].target = TargetOf(<<"/", "x">>)
      /\ basic_iff_credentials(proxy[p].upstream[k], Unwrap(proxy[p].entry).cfg)

\* C11, amended: with a trans backend at http://h2:9091 selected, a request
\* to /transmission/x is forwarded to http://h2:9091/transmission/x, the
\* inbound path kept whole, with Basic authentication exactly when the
\* backend has a username or a password.
C11_ForwardedWithFullPath ==
  \A p \in Proxies : \A k \in 1..Len(proxy[p].upstream) :
    IsTransB(p) =>
      /\ proxy[p].upstream[k].target = TargetOf(<<"/", "transmission", "/", "x">>)
      /\ basic_iff_credentials(proxy[p].upstream[k], Unwrap(proxy[p].entry).cfg)

\* A request to /transmission/x was forwarded to the trans backend at
\* http://h2:9091 that has a username and no password.
C11_Witness ==
  \E p \in Proxies :
    /\ IsTransB(p)
    /\ proxy[p].pc = "done"
    /\ Len(proxy[p].upstream) = 1
    /\ Unwrap(proxy[p].entry).cfg.username = User
    /\ Unwrap(proxy[p].entry).cfg.password = EmptyStr
    /\ IsSome(header_get(proxy[p].upstream[1].headers, "authorization"))

CallerOnly == {"cookie", "authorization", "host"}

\* What the gateway itself puts under the three names: the session token of
\* a qbit backend, the Basic credentials of a trans backend, never a Host.
gateway_values(entry, token) ==
  IF entry.cfg.kind = Qbit
    THEN IF IsSome(token) THEN <<Header("cookie", Unwrap(token))>> ELSE <<>>
    ELSE IF has_credentials(entry.cfg)
      THEN <<Header("authorization", basic_auth(entry.cfg.username, entry.cfg.password))>>
      ELSE <<>>

caller_only(headers) == SelectSeq(headers, LAMBDA h : h.name \in CallerOnly)

same_but_caller_only(p, q) ==
  /\ proxy[p].uri = proxy[q].uri
  /\ proxy[p].stream = proxy[q].stream
  /\ header_remove(proxy[p].headers, CallerOnly) =
       header_remove(proxy[q].headers, CallerOnly)

\* The upstream request apart from the session token of the gateway.
without_token(request) ==
  [request EXCEPT !.headers = header_remove(request.headers, {"cookie"})]

strips_caller_values(p, k) ==
  caller_only(proxy[p].upstream[k].headers) =
    gateway_values(Unwrap(proxy[p].entry), proxy[p].sent[k])

\* C13, as stated: on every forward the caller's Cookie, Authorization and
\* Host values never reach the upstream, the upstream Cookie of a qbit
\* backend is the session token of the gateway or absent, and two requests
\* that differ only in those three headers produce identical upstream
\* requests.
C13_CallerHeadersNeverMatter ==
  \A p \in Proxies : \A k \in 1..Len(proxy[p].upstream) :
    /\ strips_caller_values(p, k)
    /\ \A q \in Proxies :
         (same_but_caller_only(p, q) /\ k <= Len(proxy[q].upstream)) =>
           without_token(proxy[p].upstream[k]) = without_token(proxy[q].upstream[k])

\* C13, amended: on every forward the caller's Cookie, Authorization and Host
\* values never reach the upstream, the upstream Cookie of a qbit backend is
\* the session token of the gateway or absent, and two requests that select
\* the same backend and differ only in those three headers produce identical
\* upstream requests.
C13_CallerHeadersStripped ==
  \A p \in Proxies : \A k \in 1..Len(proxy[p].upstream) :
    /\ strips_caller_values(p, k)
    /\ \A q \in Proxies :
         (/\ same_but_caller_only(p, q)
          /\ proxy[p].entry = proxy[q].entry
          /\ k <= Len(proxy[q].upstream)) =>
           without_token(proxy[p].upstream[k]) = without_token(proxy[q].upstream[k])

\* Two requests to the same qbit backend, one with the caller's own Cookie,
\* Authorization and Host and one without, were both forwarded twice.
C13_Witness ==
  /\ proxy[1].entry = proxy[2].entry
  /\ IsSome(proxy[1].entry)
  /\ Unwrap(proxy[1].entry).cfg.kind = Qbit
  /\ same_but_caller_only(1, 2)
  /\ caller_only(proxy[1].headers) # <<>>
  /\ caller_only(proxy[2].headers) = <<>>
  /\ Len(proxy[1].upstream) = 2
  /\ Len(proxy[2].upstream) = 2
  /\ IsSome(proxy[1].sent[2])

from_upstream(p) ==
  proxy[p].pc = "done" /\ proxy[p].statuses # <<>> /\ Last(proxy[p].statuses) # 0

\* The header names of every line of the Connection header.
RECURSIVE names_of(_)
names_of(tokens) ==
  IF tokens = <<>> THEN {}
  ELSE (IF IsSome(header_name(trim(Head(tokens))))
          THEN {Unwrap(header_name(trim(Head(tokens))))} ELSE {})
       \cup names_of(Tail(tokens))

named_in_connection(headers) ==
  UNION {names_of(split(headers[i].value, ",")) :
           i \in {j \in 1..Len(headers) : headers[j].name = "connection"}}

names(headers) == {headers[i].name : i \in 1..Len(headers)}

\* C14, as stated: every response returned from an upstream carries the
\* upstream status unchanged and has no Set-Cookie header, no header of the
\* fixed hop-by-hop set and no header named in the Connection header of the
\* upstream response, after the first forward and after the retry.
C14_ResponseSanitized ==
  \A p \in Proxies :
    from_upstream(p) =>
      /\ proxy[p].out = Last(proxy[p].statuses)
      /\ names(proxy[p].out_headers) \cap
           ({"set-cookie"} \cup HopHeaders \cup named_in_connection(proxy[p].reply)) = {}

-----------------------------------------------------------------------------
(* Properties of handle_select *)

\* The body held a SelectRequest whose trimmed id is not empty and is a key
\* of the Catalog.
select_known(raw, cat) ==
  IF ~IsSome(raw) THEN FALSE
  ELSE trim(Unwrap(raw)) # EmptyStr /\ trim(Unwrap(raw)) \in DOMAIN cat.servers

SelectAnswers == select_task.pc # "done" /\ select_task'.pc = "done"

\* C12: a select request issues the cookie tm_server_id=<id> and answers ok
\* if and only if the trimmed id is not empty and is a key of the live
\* Catalog at that moment; in every other case it answers 400 and sets no
\* cookie; and no step of it changes the Catalog or a session.
C12_SelectIssuesCookie ==
  [][/\ (select_task' # select_task) => UNCHANGED <<catalog, sessions, cells>>
     /\ SelectAnswers =>
          IF select_known(select_task'.raw, catalog)
            THEN /\ select_task'.out = 200
                 /\ select_task'.set_cookie =
                      Some(select_cookie(trim(Unwrap(select_task'.raw))))
            ELSE /\ select_task'.out = 400
                 /\ select_task'.set_cookie = None]_vars

-----------------------------------------------------------------------------
(* Properties of handle_config_get *)

\* The response of handle_config_get for a Catalog.
config_response(cat) ==
  ConfigResponse(cat.default_id,
    [i \in 1..Len(cat.order) |-> ConfigServerPublic(cat.servers[cat.order[i]].cfg)])

with_password(cat, id, password) ==
  [cat EXCEPT !.servers[id].cfg.password = password]

NonEmptyPasswords == {Pass, Pass2, <<"x", SP, "y">>}

exposes_no_secret(out, cat) ==
  /\ \A i \in 1..Len(cat.order) :
       out.servers[i].hasPassword = (cat.servers[cat.order[i]].cfg.password # EmptyStr)
  /\ \A id \in DOMAIN cat.servers, password \in NonEmptyPasswords :
       cat.servers[id].cfg.password # EmptyStr =>
         config_response(with_password(cat, id, password)) = out

\* C15: the response of GET /__standalone__/config is the response of a live
\* Catalog, and it exposes no secret: a Catalog that differs from it only in
\* the value of a non-empty password has the same response, and hasPassword
\* is true exactly when the stored password is not empty.
C15_ConfigGetHidesPasswords ==
  get_task.pc = "done" =>
    \E cat \in versions :
      /\ Unwrap(get_task.out) = config_response(cat)
      /\ exposes_no_secret(Unwrap(get_task.out), cat)

\* Two Catalogs that differ only in the non-empty password of a were live,
\* and the response was made from one of them; b has no password.
C15_Witness ==
  /\ get_task.pc = "done"
  /\ \E cat \in versions :
       /\ Unwrap(get_task.out) = config_response(cat)
       /\ A \in DOMAIN cat.servers /\ B \in DOMAIN cat.servers
       /\ cat.servers[A].cfg.password = Pass2
       /\ cat.servers[B].cfg.password = EmptyStr
       /\ with_password(cat, A, Pass) \in versions

-----------------------------------------------------------------------------
(* Properties of handle_status *)

\* The record of the response for an entry of the Catalog: the public fields
\* of the entry; reachable with a latency when the connection was made
\* before the deadline, not reachable and without latency otherwise.
record_as_specified(record, cfg, dial) ==
  /\ record.id = cfg.id
  /\ record.name = cfg.name
  /\ record.type = cfg.kind
  /\ record.baseUrl = cfg.base_url
  /\ IF dial.state = "connected"
       THEN record.reachable /\ IsSome(record.latencyMs)
       ELSE ~record.reachable /\ record.latencyMs = None

one_record_per_entry(task, cat) ==
  /\ Len(task.servers) = Len(cat.order)
  /\ \A i \in 1..Len(cat.order) :
       record_as_specified(task.servers[i], cat.servers[cat.order[i]].cfg,
                           task.dials[i])

\* C16: a status check completes once the deadline has passed, however many
\* dials are refused or never answer; its response has exactly one record
\* per Catalog entry, in Catalog order, and a record is reachable with a
\* latency when its connection was made before the deadline and not
\* reachable without a latency otherwise.
C16_StatusCompletes ==
  /\ [](status_task.pc = "done" => one_record_per_entry(status_task, catalog))
  /\ (status_task.pc = "dial") ~> (status_task.pc = "done")
  /\ (status_task.expired) ~> (status_task.pc = "done")

\* A status check over two entries completed after the deadline: one entry
\* never answered, the other had connected.
C16_Witness ==
  /\ status_task.pc = "done"
  /\ status_task.expired
  /\ Len(status_task.servers) = 2
  /\ status_task.dials[1].state = "elapsed"
  /\ status_task.dials[2].state = "connected"
  /\ status_task.servers[2].latencyMs = Some(1199)

-----------------------------------------------------------------------------
(* Properties of the forwards of handle_proxy *)

\* The send of the k-th forward failed: there is no upstream response.
transport_error(p, k) == proxy[p].statuses[k] = 0

\* C17: a proxied request is forwarded exactly once, with no forced
\* re-login, whenever the backend is a trans backend or the first response
\* status is anything other than 403; and when the send of a forward fails,
\* the first or the retry, the caller gets 502 and nothing is forwarded after.
C17_SingleForward ==
  \A p \in Proxies :
    /\ (/\ proxy[p].pc = "done"
        /\ proxy[p].statuses # <<>>
        /\ \/ Unwrap(proxy[p].entry).cfg.kind = Trans
           \/ proxy[p].statuses[1] # 403) =>
         /\ Len(proxy[p].statuses) = 1
         /\ Len(proxy[p].upstream) = 1
         /\ proxy[p].forced = 0
    /\ \A k \in 1..Len(proxy[p].statuses) :
         transport_error(p, k) =>
           /\ k = Len(proxy[p].statuses)
           /\ proxy[p].pc = "done"
           /\ proxy[p].out = 502

\* A request to the trans backend was answered 403 and forwarded once; a
\* request to the qbit backend was answered 403, and the send of its retry
\* failed.
C17_Witness ==
  /\ proxy[1].pc = "done"
  /\ Unwrap(proxy[1].entry).cfg.kind = Trans
  /\ proxy[1].statuses = <<403>>
  /\ proxy[1].out = 403
  /\ proxy[2].pc = "done"
  /\ Unwrap(proxy[2].entry).cfg.kind = Qbit
  /\ proxy[2].statuses = <<403, 0>>
  /\ proxy[2].out = 502

-----------------------------------------------------------------------------
(* Properties of the Catalog lock *)

status_has_read == status_task.pc \in {"dial", "done"}

\* What handle_status read is what the Catalog cat gives.
status_read_from(task, cat) ==
  /\ task.selected = Some(selected_id(cat, task.jar))
  /\ task.items = [i \in 1..Len(cat.order) |-> status_item(cat.servers[cat.order[i]])]

select_has_read == select_task.pc = "done" /\ select_task.msg \in {"ok", "unknown server id"}

\* C18: every reader observes a whole Catalog version.  The entry a proxied
\* request forwards with is the entry one version gives for its cookie, with
\* every field of it; the selected id and the items of a status check, the
\* default id and the servers of a config-get response, and the answer of a
\* select all come from one single version, never from a mix of the versions
\* before and after a concurrent update.
C18_WholeVersion ==
  /\ \A p \in Proxies :
       IsSome(proxy[p].entry) =>
         \E cat \in versions : proxy[p].entry = pick(cat, proxy[p].jar)
  /\ status_has_read => \E cat \in versions : status_read_from(status_task, cat)
  /\ get_task.pc = "done" =>
       \E cat \in versions : Unwrap(get_task.out) = config_response(cat)
  /\ select_has_read =>
       \E cat \in versions :
         (select_task.out = 200) <=> (select_task.id \in DOMAIN cat.servers)

\* An update changed the default id, the order and the entries while the
\* readers ran: the config-get response was made from the version before the
\* swap, the status check and the proxied request read the version after it.
C18_Witness ==
  /\ Cardinality(versions) = 2
  /\ get_task.pc = "done"
  /\ Unwrap(get_task.out) # config_response(catalog)
  /\ status_has_read
  /\ status_read_from(status_task, catalog)
  /\ status_task.selected = Some(B)
  /\ IsSome(proxy[1].entry)
  /\ proxy[1].entry = pick(catalog, proxy[1].jar)
  /\ Unwrap(proxy[1].entry).cfg.id = B

\* The steps of a task that are made of memory operations alone; every
\* other step dials, logs in, forwards, or writes, renames or reloads a file.
ProxyReads == {"pick"}

StatusReads == {"selected", "items"}

SelectReads == {"check"}

GetReads == {"default", "servers"}

UpdateReads == {"existing"}

CatalogLocks == {"read", "write"}

\* C19: the Catalog lock is never held while a network or disk operation is
\* performed.  A read acquisition of the proxy, status, select, config-get or
\* config-update handler is held only over the reads of the Catalog and is
\* released before any dial, login, forward, file write, rename or reload;
\* the write acquisition of an update covers only the assignment of the new
\* Catalog, which is loaded already.
C19_NoLockAcrossIO ==
  /\ \A p \in Proxies :
       proxy[p].lock \in CatalogLocks => proxy[p].lock = "read" /\ proxy[p].pc \in ProxyReads
  /\ status_task.lock \in CatalogLocks =>
       status_task.lock = "read" /\ status_task.pc \in StatusReads
  /\ select_task.lock \in CatalogLocks =>
       select_task.lock = "read" /\ select_task.pc \in SelectReads
  /\ get_task.lock \in CatalogLocks =>
       get_task.lock = "read" /\ get_task.pc \in GetReads
  /\ \A u \in Updates :
       /\ upd[u].lock = "read" => upd[u].pc \in UpdateReads
       /\ upd[u].lock = "write" => upd[u].pc = "swap" /\ IsSome(upd[u].new_catalog)

\* The update holds the write lock for the assignment while the proxied
\* request waits for its login answer and the status check for its dials,
\* neither holding the lock.
C19_Witness ==
  /\ upd[1].lock = "write"
  /\ proxy[1].pc = "login"
  /\ proxy[1].lock = "none"
  /\ status_task.pc = "dial"
  /\ status_task.lock = "none"
  /\ \E i \in 1..Len(status_task.dials) : status_task.dials[i].state = "pending"

-----------------------------------------------------------------------------
(* Properties of the lock of the session map *)

logging_in(p) == proxy[p].pc = "login"

other_backend(p, q) ==
  /\ p # q
  /\ IsSome(proxy[q].entry)
  /\ Unwrap(proxy[q].entry).cfg.id # Unwrap(proxy[p].entry).cfg.id

\* Nobody but p can be in the way of q or of the update: no other task
\* holds the guard of the map.
only(p) ==
  /\ \A r \in Proxies : r # p => proxy[r].lock # "map"
  /\ \A u \in Updates : upd[u].lock # "map"

\* No third request is logging in to the backend of q with the cell of q.
no_third(p, q) ==
  \A r \in Proxies \ {p, q} : ~(logging_in(r) /\ proxy[r].cell = proxy[q].cell)

\* C20: a login in progress for backend X never blocks ensure_cookie for a
\* different backend Y, nor the discarding of all cells by a configuration
\* update: the lock of the session map is held only while a cell is looked
\* up or created or the map is cleared, never across a login.
C20_LoginBlocksNoOther ==
  /\ \A p \in Proxies : proxy[p].lock = "map" => proxy[p].pc = "session"
  /\ \A u \in Updates : upd[u].lock = "map" => upd[u].pc = "clear"
  /\ \A p \in Proxies :
       logging_in(p) =>
         /\ \A q \in Proxies :
              other_backend(p, q) =>
                /\ (proxy[q].pc = "ensure" /\ only(p)) => ENABLED EnsureStart(q)
                /\ proxy[q].pc = "session" => ENABLED EnsureSession(q)
                /\ (proxy[q].pc = "lock" /\ no_third(p, q)) => ENABLED EnsureLock(q)
         /\ (upd[1].pc = "map_lock" /\ only(p)) => ENABLED UpdateMapLock(1)
         /\ upd[1].pc = "clear" => ENABLED UpdateClear(1)

\* While the login for a is in progress, the request to b has its cell and
\* is about to lock it, and the update is about to clear the map.
C20_Witness ==
  /\ logging_in(1)
  /\ other_backend(1, 2)
  /\ proxy[2].pc = "lock"
  /\ upd[1].pc = "clear"

-----------------------------------------------------------------------------
(* Properties of ensure_cookie *)

\* A step of proxy task p.
ProxyStepped(p) == proxy'[p] # proxy[p]

\* ensure_cookie of task p ends in this step with the error of the missing
\* credentials: nothing is looked up, created or sent.
fails_without_credentials(p) ==
  /\ proxy'[p].pc = "forward"
  /\ proxy'[p].logins = proxy[p].logins
  /\ proxy'[p].cookie = proxy[p].cookie
  /\ ~proxy[p].force => proxy'[p].auth1 = "requires username/password"
  /\ UNCHANGED <<sessions, cells>>

\* ensure_cookie of task p ends in this step with the token its cell holds.
returns_cached_token(p) ==
  /\ proxy'[p].pc = "forward"
  /\ proxy'[p].logins = proxy[p].logins
  /\ proxy'[p].cookie = cells[proxy[p].cell].cookie
  /\ UNCHANGED sessions

sends_login(p) ==
  /\ proxy'[p].pc = "login"
  /\ proxy'[p].logins = proxy[p].logins + 1

\* C21: ensure_cookie(entry, force) sends a login request exactly when the
\* entry has a username or a password and either force is set or the cell
\* of the entry holds no token when its lock is taken; without a username
\* and a password it fails with no cell created and nothing sent; with a
\* cached token and force unset it returns that token.
C21_LoginIffNeeded ==
  [][\A p \in Proxies :
       ProxyStepped(p) =>
         /\ proxy'[p].logins # proxy[p].logins => proxy[p].pc = "lock"
         /\ proxy[p].pc = "ensure" =>
              IF has_credentials(Unwrap(proxy[p].entry).cfg)
                THEN proxy'[p].pc = "session"
                ELSE fails_without_credentials(p)
         /\ proxy[p].pc = "lock" =>
              /\ has_credentials(Unwrap(proxy[p].entry).cfg)
              /\ IF proxy[p].force \/ ~IsSome(cells[proxy[p].cell].cookie)
                   THEN sends_login(p)
                   ELSE returns_cached_token(p)]_vars

\* One request was forwarded with the token another one had cached, without
\* a login of its own; the other one was made to log in again by a 403.
C21_Witness ==
  \E p, q \in Proxies :
    /\ proxy[p].auth1 = "cached"
    /\ proxy[p].logins = 0
    /\ proxy[p].statuses = <<200>>
    /\ IsSome(proxy[p].sent[1])
    /\ proxy[q].forced = 1
    /\ proxy[q].logins = 2

\* A Set-Cookie value sets a cookie when it is text (visible ASCII) and the
\* part before its first ';' has a name before its first '='.
cookie_name(value) == trim(before(before(value, ";"), "="))

cookie_value(value) == trim(after(before(value, ";"), "="))

sets_cookie(value) ==
  /\ \A i \in 1..Len(value) : value[i] # OPAQUE
  /\ cookie_name(value) # EmptyStr

\* The name=value pairs of the Set-Cookie values that set a cookie.
pairs_set(set_cookie) ==
  LET kept == SelectSeq(set_cookie, sets_cookie)
  IN [i \in 1..Len(kept) |-> cookie_name(kept[i]) \o <<"=">> \o cookie_value(kept[i])]

yields_token(r) ==
  /\ r.sent_ok
  /\ r.status = 200
  /\ r.body_ok
  /\ \E i \in 1..Len(r.set_cookie) : sets_cookie(r.set_cookie[i])

login_as_specified(r, before_cell, result, after_cell) ==
  /\ result.ok <=> yields_token(r)
  /\ result.ok =>
       /\ result.val = Some(join_cookies(pairs_set(r.set_cookie)))
       /\ after_cell.cookie = result.val
  /\ ~result.ok => after_cell.cookie = before_cell.cookie

\* C22: a login attempt yields a token exactly when the response has status
\* 200, its body contains the marker and it sets at least one cookie; the
\* token is then the name=value pairs of all Set-Cookie headers joined with
\* "; " and is stored in the cell; in every other outcome ensure_cookie
\* returns an error and the token of the cell is what it was.
C22_LoginYieldsToken ==
  probe.op = "login" =>
    login_as_specified(Unwrap(probe.arg).resp, Unwrap(probe.arg).cell,
                       Unwrap(probe.res).result, Unwrap(probe.res).cell)

\* A login answered 200 with the marker and two cookies, one of them with
\* attributes and one with blanks around its name and value, replaced the
\* token of the cell by the two pairs.
C22_Witness ==
  /\ probe.op = "login"
  /\ Unwrap(probe.arg).resp =
       LoginResponse(TRUE, 200, TRUE,
                     << <<"SID", "=", "x", ";", SP, "HttpOnly">>,
                        <<SP, "lang", SP, "=", SP, "en">> >>)
  /\ Unwrap(probe.arg).cell.cookie = Some(<<"SID", "=", "old">>)
  /\ Unwrap(probe.res).result.val =
       Some(<<"SID", "=", "x", ";", SP, "lang", "=", "en">>)
  /\ Unwrap(probe.res).cell.cookie = Unwrap(probe.res).result.val

-----------------------------------------------------------------------------
(* Properties of join_path *)

ends_with_slash(a) == a # <<>> /\ a[Len(a)] = "/"

starts_with_slash(b) == b # <<>> /\ Head(b) = "/"

\* b from its first token that is not a slash on.
without_leading_slashes(b) ==
  LET rest == {k \in 1..Len(b) : b[k] # "/"}
  IN IF rest = {} THEN <<>>
     ELSE SubSeq(b, CHOOSE k \in rest : \A j \in rest : k <= j, Len(b))

join_examples ==
  /\ join_path(<<>>, <<"/", "api", "/", "v1">>) = <<"/", "api", "/", "v1">>
  /\ join_path(<<"/", "x", "/">>, <<"/", "y">>) = <<"/", "x", "/", "y">>
  /\ join_path(<<"/", "x">>, <<"y">>) = <<"/", "x", "/", "y">>

\* C23, as stated: join_path(a, b) is a followed by b with exactly one
\* leading slash of b dropped when a ends with a slash and b starts with
\* one; a, one slash, then b when neither has a boundary slash; a followed
\* by b otherwise; and the three examples hold.
C23_JoinDropsOneSlash ==
  probe.op = "join" =>
    /\ Unwrap(probe.res) =
         LET a == Unwrap(probe.arg)[1]
             b == Unwrap(probe.arg)[2]
         IN IF ends_with_slash(a) /\ starts_with_slash(b) THEN a \o Tail(b)
            ELSE IF ~ends_with_slash(a) /\ ~starts_with_slash(b)
              THEN a \o <<"/">> \o b
            ELSE a \o b
    /\ join_examples

\* C23, amended: join_path(a, b) is a followed by b with every leading slash
\* of b dropped when a ends with a slash and b starts with one; a, one
\* slash, then b when neither has a boundary slash; a followed by b
\* otherwise; and the three examples hold.
C23_JoinDropsLeadingSlashes ==
  probe.op = "join" =>
    /\ Unwrap(probe.res) =
         LET a == Unwrap(probe.arg)[1]
             b == Unwrap(probe.arg)[2]
         IN IF ends_with_slash(a) /\ starts_with_slash(b)
              THEN a \o without_leading_slashes(b)
            ELSE IF ~ends_with_slash(a) /\ ~starts_with_slash(b)
              THEN a \o <<"/">> \o b
            ELSE a \o b
    /\ join_examples

\* /x/ was joined with //y: both leading slashes of //y are gone.
C23_Witness ==
  /\ probe.op = "join"
  /\ Unwrap(probe.arg) = << <<"/", "x", "/">>, <<"/", "/", "y">> >>
  /\ Unwrap(probe.res) = <<"/", "x", "/", "y">>

-----------------------------------------------------------------------------
(* Properties of the validation of handle_config_update *)

\* The configuration document of a request: its definitions as sent, each
\* password the one supplied or else the one the snapshot has for the id.
merged_document(req, existing) ==
  [defaultServerId |-> req.default_server_id,
   servers |-> [i \in 1..Len(req.servers) |->
     [id |-> req.servers[i].id, name |-> req.servers[i].name,
      type |-> req.servers[i].kind, baseUrl |-> req.servers[i].base_url,
      username |-> req.servers[i].username,
      password |->
        IF IsSome(req.servers[i].password) THEN Unwrap(req.servers[i].password)
        ELSE IF trim(req.servers[i].id) \in DOMAIN existing
          THEN existing[trim(req.servers[i].id)]
        ELSE EmptyStr]]]

\* The added rule: a qbit definition has a username or a password.
credential_rule(doc) ==
  \A i \in 1..Len(doc.servers) :
    doc.servers[i].type = Qbit =>
      trim(doc.servers[i].username) # EmptyStr \/ trim(doc.servers[i].password) # EmptyStr

\* The Catalog cat is that of the validated list config: the ids in order,
\* the default id, and the credentials of every entry.
same_catalog(cat, config) ==
  /\ cat.order = [i \in 1..Len(config.servers) |-> config.servers[i].id]
  /\ cat.default_id = config.default_server_id
  /\ \A i \in 1..Len(config.servers) :
       /\ cat.servers[config.servers[i].id].cfg.username = config.servers[i].username
       /\ cat.servers[config.servers[i].id].cfg.password = config.servers[i].password

reloads_as_validated(config) ==
  /\ load(Some(Written(serialize_config(config)))).ok
  /\ same_catalog(Unwrap(load(Some(Written(serialize_config(config)))).val), config)

\* C24: the validation of a configuration update accepts a request exactly
\* when Catalog::load accepts its definitions and every qbit definition has
\* a username or a password; and the file an accepted request writes is
\* accepted by Catalog::load, which gives the ids in the same order, the
\* same default id and the same merged credentials as the validated list.
C24_ValidationMatchesLoad ==
  [][\A u \in Updates :
       upd[u].pc = "existing" /\ UpdateStepped(u) =>
         /\ upd'[u].pc = "write" <=>
              /\ load_config(deserialize_config(
                    merged_document(Unwrap(upd[u].req), upd'[u].existing))).ok
              /\ credential_rule(merged_document(Unwrap(upd[u].req), upd'[u].existing))
         /\ upd'[u].pc # "write" => upd'[u].pc = "done" /\ upd'[u].out = 400
         /\ upd'[u].pc = "write" => reloads_as_validated(Unwrap(upd'[u].config))]_vars

\* An update with padded ids and a padded default id, and a password taken
\* from the live Catalog, was validated and applied; another one, with a
\* repeated id, was rejected.
C24_Witness ==
  \E u, v \in Updates :
    /\ upd[u].pc = "done"
    /\ upd[u].out = 200
    /\ Unwrap(upd[u].req).default_server_id = <<SP, "b">>
    /\ Len(Unwrap(upd[u].req).servers) = 2
    /\ Unwrap(upd[u].req).servers[1].password = None
    /\ Unwrap(upd[u].config).servers[1].password = Pass
    /\ Unwrap(upd[u].config).default_server_id = B
    /\ upd[v].pc = "done"
    /\ upd[v].msg = "duplicate server id"

-----------------------------------------------------------------------------
(* Properties of the session tokens across a swap of the Catalog *)

\* The tokens a login with the credentials of entry can obtain.
tokens_of(entry) ==
  {Unwrap(login_result(LoginAnswer(a, entry)).val) : a \in {"ok", "ok2"}}

\* C25: a request that resolved its entry from one version of the Catalog is
\* only ever forwarded with a session token obtained by a login with the
\* credentials that version has for the id: no token cached before a swap
\* is attached to a request that read the Catalog after it, and no login
\* made with an entry from before the swap leaves a token that a request
\* from after the swap reuses.
C25_TokenOfOwnVersion ==
  \A p \in Proxies : \A k \in 1..Len(proxy[p].sent) :
    IsSome(proxy[p].sent[k]) =>
      Unwrap(proxy[p].sent[k]) \in tokens_of(Unwrap(proxy[p].entry))

-----------------------------------------------------------------------------
(* Properties of the configuration file across a failed update *)

\* The update of task u has failed at the write of the temporary file, at
\* the renames or at the reload.
failed_on_disk(u) ==
  /\ upd[u].pc = "done"
  /\ upd[u].msg \in {"write config failed", "config is invalid"}

\* The file holds the configuration a successful update other than u wrote.
replaced_by_other(u) ==
  \E v \in Updates \ {u} :
    /\ upd[v].out = 200
    /\ file = Some(Written(serialize_config(Unwrap(upd[v].config))))

\* C26: a configuration update that fails at the write of the temporary
\* file, at either rename or at the reload leaves the configuration file
\* present and with the content it had before the update began (or with
\* that of a concurrent update that succeeded), also when two updates share
\* the temporary path; once the updates have ended the file is not missing.
C26_FailedUpdateKeepsFile ==
  /\ \A u \in Updates :
       failed_on_disk(u) =>
         /\ IsSome(file)
         /\ file = upd[u].file_before \/ replaced_by_other(u)
  /\ (\A u \in Updates : upd[u].pc \in {"idle", "done"}) => IsSome(file)

-----------------------------------------------------------------------------
(* Properties of the passwords across overlapping updates *)

\* The update of task u leaves out the password of its i-th definition, an
\* id of the Catalog cat.
omits_password(u, i, cat) ==
  /\ Unwrap(upd[u].req).servers[i].password = None
  /\ trim(Unwrap(upd[u].req).servers[i].id) \in DOMAIN cat.servers

\* C27: when configuration updates overlap no credential update is lost:
\* the password an update stores for an id whose password it leaves out is
\* the password the id has in the Catalog the update replaces when it
\* swaps, not the one of its earlier snapshot of the existing passwords.
C27_NoLostCredential ==
  [][\A u \in Updates :
       upd[u].pc = "swap" /\ UpdateStepped(u) =>
         \A i \in 1..Len(Unwrap(upd[u].req).servers) :
           omits_password(u, i, catalog) =>
             Unwrap(upd[u].config).servers[i].password =
               catalog.servers[trim(Unwrap(upd[u].req).servers[i].id)].cfg.password]_vars
====
